---- MODULE Spec2Model ----
(***************************************************************************)
(* Verification model of the Parcoll SPMC work-stealing queues:            *)
(*   - SPMCBoundedQueue    (src/src/spmc/const_bounded.rs)                 *)
(*   - SPMCUnboundedQueue  (src/src/spmc/unbounded.rs)                     *)
(*   - SyncBatchReceiver   (src/src/sync_batch_receiver.rs)                *)
(*                                                                         *)
(* Every atomic access (load, store, compare-exchange) of a thread is one  *)
(* step; the thread-local computation before it belongs to the same step.  *)
(* Elements are numbered 1, 2, 3, ... in the order the producer creates    *)
(* them, so an element's value is its position in the push sequence.       *)
(* A spurious failure of compare_exchange_weak returns the expected value  *)
(* and leaves every variable as it was: it is a stuttering step.           *)
(***************************************************************************)
EXTENDS Integers, Sequences, FiniteSets, TLC

\* ------------------------------------------------------------------ bounds
\* Elements the producer creates in a run with two consumer handles.
MaxPush == 2
\* Elements the producer creates in a run with one consumer handle.
MaxPushOne == 5
\* Elements the producer creates in a run without consumers.
MaxPushSeq == 8
\* Longest slice handed to push_many / maybe_push_many.
MaxSlice == 4
\* The lengths of the dst handed to pop_many (shorter than, and as long as
\* or longer than, every capacity of the model).
DstLens == {1, 4}

\* Elements the unbounded producer creates in a run with two consumer handles.
MaxPushU == 2
\* Elements the unbounded producer creates in a run with one consumer handle.
MaxPushUOne == 5
\* Elements the unbounded producer creates in a run with one consumer handle
\* in which the queue never grows.
MaxPushUNoGrow == 6
\* Longest slice handed to the unbounded push_many.
MaxSliceU == 5
\* The unbounded queue grows up to the version with this id in a run with
\* two consumer handles, and in a run with one.
MaxVersionId == 1
MaxVersionIdOne == 2
\* The lengths of the dst handed to the unbounded pop_many.
UDstLens == {1, 5}

\* The consumer handles (clones of the consumer half).
Consumers == {"c1", "c2"}

\* CAPACITY values the model instantiates the const generic with
\* (new_bounded accepts any; a power of two is only recommended).
\* With two consumer handles:
Capacities == {2}
\* with one consumer handle:
CapacitiesOne == {3, 4}
\* without consumers:
CapacitiesSeq == {2, 3, 4}

\* Capacities and pushes of the uncontended stealing runs (scenario S2): half
\* of a full queue is at least the steal threshold.
CapacitiesSteal == {8, 9}
MaxPushMaybeMany == 6

\* Pushes of the runs that check the progress of one consumer handle.
MaxPushLockFree == 4

\* Capacities and pushes of the batch round trips (scenario S3): five batches
\* of four on five slots start at every offset of the ring.
CapacitiesMany == {5, 6}
MaxPushMany == 20

MaxPushSteal == 14

\* Pushes of the unbounded stealing runs with and without always_steal (one
\* growth, to capacity 8: half of a full queue reaches the steal threshold).
MaxPushThreshold == 9

\* Pushes of the runs of the unbounded producer alone (two growths, to
\* capacity 16).
MaxPushUSeq == 12

\* Pushes of the stealing rounds of test_spmc_unbounded_stealing: enough for
\* a src of more than twice dst's capacity.
MaxPushUSteal == 12

\* Pushes of the runs in which one consumer handle uses all its operations.
MaxPushUHandle == 4

\* ------------------------------------------------------- program constants
\* LongNumber is an unsigned word; counters wrap at 2^W (W = 16 here).
LongModulus == 65536
\* MaybeUninit::uninit(): the bytes of a slot that was never written.
Uninit == 0
\* "we don't steal less than 4 by default"
StealThreshold == 4
\* SPMCUnboundedQueue::new: with_capacity(4)
InitialCapacity == 4

VARIABLES
    \* build configuration
    CAPACITY,          \* const generic CAPACITY
    always_steal,      \* cfg!(feature = "always_steal")
    debug_assertions,  \* cfg!(debug_assertions)
    push_limit,        \* elements the producer creates in this run
    handles,           \* the consumer handles that threads of this run use
    version_limit,     \* the id of the last version the queue grows to
    \* SPMCBoundedQueue
    head, tail, buffer,
    \* the SyncBatchReceiver handed to push / push_many: its content, in order
    sink,
    \* producer thread: position, loaded head, current call, last result
    ppc, p_head, p_arg, p_ret,
    \* elements created so far, and the last element a producer pop returned
    pushed, last_popped,
    \* consumer threads: position and locals of the running call
    cons,
    \* the queue each consumer owns as producer and steals into
    dstq,
    \* how often each element was handed to a caller (by the producer's pop and
    \* pop_many, a consumer's pop_many, or a pop from a dst); 0 counts the
    \* slots handed over that held no element
    delivered,
    \* SPMCUnboundedQueue: head, the packed (version id, tail) word, the
    \* version behind the lock (its id), whether the write side of the lock is
    \* held, and every Version allocated so far (the one with id i at i + 1)
    u_head, tail_and_version, last_version, lock, versions,
    \* the cached_version of the producer and of each consumer (its id), and
    \* the tail create_new_version... returned to the growing producer
    p_version, c_version, p_tail

cfgvars == <<CAPACITY, always_steal, debug_assertions, push_limit, handles,
             version_limit>>
qvars   == <<head, tail, buffer>>
pvars   == <<ppc, p_head, p_arg, p_ret>>
cvars   == <<cons, dstq>>
bvars   == <<qvars, sink, pvars, pushed, last_popped, delivered, cvars>>
uvars   == <<u_head, tail_and_version, last_version, lock, versions,
             p_version, c_version, p_tail>>
vars    == <<cfgvars, bvars, uvars>>

\* ------------------------------------------------------------ arithmetic
wrapping_add(a, b) == (a + b) % LongModulus
wrapping_sub(a, b) == (a - b + LongModulus) % LongModulus

\* SPMCBoundedQueue::len
len(h, t) == wrapping_sub(t, h)

NUM_VALUES_TAKEN(cap) == cap \div 2

Min(a, b) == IF a <= b THEN a ELSE b

\* The slice of n consecutive elements whose first one is v.
Payload(v, n) == [j \in 1..n |-> v + j - 1]

\* A slot of a buffer of cap slots; past the end there is no slot, and the
\* read yields bytes that are no element.
Slot(buf, i, cap) == IF i >= 0 /\ i < cap THEN buf[i] ELSE Uninit

\* ---------------------------------------------------------------- helpers
\* Faulty variant: copy_slice without the second copy of a wrapping slice.
copy_slice_one_shot(buf, start_tail, slice, cap) ==
    LET tail_idx == start_tail % cap
        n == Len(slice)
    IN  [i \in DOMAIN buf |->
            IF i >= tail_idx /\ i < tail_idx + n
            THEN slice[i - tail_idx + 1] ELSE buf[i]]

\* copy_slice: writes slice at start_tail (wrap-aware), gives the new buffer.
copy_slice(buf, start_tail, slice, cap) ==
    LET tail_idx == start_tail % cap
        n == Len(slice)
        right == cap - tail_idx
    IN  IF tail_idx + n <= cap
        THEN [i \in DOMAIN buf |->
                IF i >= tail_idx /\ i < tail_idx + n
                THEN slice[i - tail_idx + 1] ELSE buf[i]]
        ELSE [i \in DOMAIN buf |->
                IF i >= tail_idx THEN slice[i - tail_idx + 1]
                ELSE IF i < n - right THEN slice[right + i + 1]
                ELSE buf[i]]

\* The wrap-aware copy of n slots starting at head into dst
\* (producer_pop_many, consumer_pop_many).
copy_out(buf, h, n, cap) ==
    LET head_idx == h % cap
        right == cap - head_idx
    IN  IF n <= right
        THEN [j \in 1..n |-> Slot(buf, head_idx + j - 1, cap)]
        ELSE [j \in 1..n |->
                IF j <= right THEN Slot(buf, head_idx + j - 1, cap)
                ELSE Slot(buf, j - right - 1, cap)]

\* The two slices handle_overflow_one / handle_overflow_many take from the
\* buffer: (right, left).
overflow_slices(buf, h, cap) ==
    LET head_idx == h % cap
        taken == NUM_VALUES_TAKEN(cap)
    IN  IF head_idx < taken
        THEN [right |-> [j \in 1..taken |-> Slot(buf, head_idx + j - 1, cap)],
              left  |-> <<>>]
        ELSE LET left_part_len == head_idx - taken
             IN  [right |-> [j \in 1..(cap - head_idx) |->
                                Slot(buf, head_idx + j - 1, cap)],
                  left  |-> [j \in 1..left_part_len |-> Slot(buf, j - 1, cap)]]

\* SyncBatchReceiver: "It first pushes the first slice, then the last slice
\* and finally the value / the slice."
\* Faulty variant: a receiver that loses the value.
push_many_and_one_lost(s, first, last, value) == s \o first \o last

push_many_and_one(s, first, last, value) == s \o first \o last \o <<value>>
push_many_and_slice(s, first, last, slice) == s \o first \o last \o slice

\* debug_assert!(tail == head.wrapping_add(CAPACITY) && tail > head)
overflow_assertion(t, h, cap) == t = wrapping_add(h, cap) /\ t > h

\* -------------------------------------------------------------------- Init
EmptyBuffer(cap) == [i \in 0..(cap - 1) |-> Uninit]

IdleConsumer == [pc |-> "idle", head |-> 0, tail |-> 0, version |-> 0,
                 n |-> 0, len |-> 0, dst |-> <<>>]

NoArg == [op |-> "none", v |-> 0, n |-> 0]
NoRet == [op |-> "none", res |-> "none", vals |-> <<>>]

\* The threads before their first call.
InitThreads(limit, hs, dst_capacity) ==
    /\ push_limit = limit
    /\ handles = hs
    /\ ppc = "idle" /\ p_head = 0 /\ p_arg = NoArg /\ p_ret = NoRet
    /\ pushed = 0 /\ last_popped = 0
    /\ cons = [c \in Consumers |-> IdleConsumer]
    /\ dstq = [c \in Consumers |->
                 [head |-> 0, tail |-> 0, buffer |-> EmptyBuffer(dst_capacity)]]
    /\ delivered = [v \in 0..limit |-> 0]

\* A run without an unbounded queue.
NoUnboundedQueue ==
    /\ u_head = 0 /\ tail_and_version = 0 /\ last_version = 0
    /\ lock = FALSE /\ versions = <<>>
    /\ p_version = 0 /\ c_version = [c \in Consumers |-> 0] /\ p_tail = 0

\* SPMCBoundedQueue::new (head = tail = 0, an uninitialized buffer) for each
\* build configuration, with the caller's bound on the run.
InitQueue(caps, limit, hs) ==
    /\ CAPACITY \in caps
    /\ InitThreads(limit, hs, CAPACITY)
    /\ version_limit = 0
    /\ NoUnboundedQueue
    /\ always_steal \in BOOLEAN
    /\ debug_assertions \in BOOLEAN
    /\ head = 0 /\ tail = 0
    /\ buffer = EmptyBuffer(CAPACITY)
    /\ sink = <<>>

Init ==
    \/ InitQueue(Capacities, MaxPush, Consumers)
    \/ InitQueue(CapacitiesOne, MaxPushOne, {"c1"})

\* A call starts only while the head counter is within the bound of the run.
CounterInRun == head <= push_limit

\* delivered, with every element of vals handed over once more.
Handed(bag, vals) ==
    [v \in DOMAIN bag |->
        bag[v] + Cardinality({j \in DOMAIN vals : vals[j] = v})]

\* The producer's call is over: its locals are dead, ret is what it returned.
Return(ret) ==
    /\ ppc' = "idle" /\ p_head' = 0 /\ p_arg' = NoArg
    /\ p_ret' = ret

\* ------------------------------------------------------ producer: pushing
\* push_unchecked: write the slot, then store tail + 1.
push_unchecked ==
    /\ ppc = "push_unchecked"
    /\ buffer' = [buffer EXCEPT ![tail % CAPACITY] = p_arg.v]
    /\ tail' = wrapping_add(tail, 1)
    /\ Return([op |-> p_arg.op, res |-> "Ok", vals |-> <<>>])
    /\ UNCHANGED <<cfgvars, uvars, head, sink, pushed, last_popped, delivered, cvars>>

\* producer_push: load head and tail, then overflow or push_unchecked.
producer_push ==
    /\ ppc = "idle" /\ pushed < push_limit /\ CounterInRun
    /\ pushed' = pushed + 1
    /\ p_arg' = [op |-> "push", v |-> pushed + 1, n |-> 1]
    /\ p_head' = head
    /\ p_ret' = NoRet
    /\ ppc' = IF len(head, tail) = CAPACITY
              THEN IF debug_assertions /\ ~overflow_assertion(tail, head, CAPACITY)
                   THEN "panicked" ELSE "handle_overflow_one"
              ELSE "push_unchecked"
    /\ UNCHANGED <<cfgvars, uvars, qvars, sink, last_popped, delivered, cvars>>

\* Faulty variant: producer_maybe_push without the test for a full queue.
producer_maybe_push_forced ==
    /\ ppc = "idle" /\ pushed < push_limit /\ CounterInRun
    /\ ppc' = "push_unchecked"
    /\ p_head' = head
    /\ p_arg' = [op |-> "maybe_push", v |-> pushed + 1, n |-> 1]
    /\ pushed' = pushed + 1
    /\ p_ret' = NoRet
    /\ UNCHANGED <<cfgvars, uvars, qvars, sink, last_popped, delivered, cvars>>

\* producer_maybe_push: Err(value) when full, else push_unchecked.
producer_maybe_push ==
    /\ ppc = "idle" /\ pushed < push_limit /\ CounterInRun
    /\ IF len(head, tail) = CAPACITY
       THEN /\ Return([op |-> "maybe_push", res |-> "Err",
                       vals |-> <<pushed + 1>>])
            /\ UNCHANGED pushed
       ELSE /\ ppc' = "push_unchecked"
            /\ p_head' = head
            /\ p_arg' = [op |-> "maybe_push", v |-> pushed + 1, n |-> 1]
            /\ pushed' = pushed + 1
            /\ p_ret' = NoRet
    /\ UNCHANGED <<cfgvars, uvars, qvars, sink, last_popped, delivered, cvars>>

\* handle_overflow_one: one turn of its loop (the compare_exchange_weak).
handle_overflow_one ==
    /\ ppc = "handle_overflow_one"
    /\ LET s == overflow_slices(buffer, p_head, CAPACITY) IN
       IF head = p_head
       THEN /\ head' = wrapping_add(p_head, NUM_VALUES_TAKEN(CAPACITY))
            /\ sink' = push_many_and_one(sink, s.left, s.right, p_arg.v)
            /\ Return([op |-> p_arg.op, res |-> "Spilled", vals |-> <<>>])
       ELSE /\ p_head' = head
            /\ ppc' = IF len(head, tail) < NUM_VALUES_TAKEN(CAPACITY)
                      THEN "push_unchecked" ELSE "handle_overflow_one"
            /\ UNCHANGED <<head, sink, p_arg, p_ret>>
    /\ UNCHANGED <<cfgvars, uvars, tail, buffer, pushed, last_popped, delivered, cvars>>

\* copy_slice at tail, then store the new tail (the bulk copy of
\* producer_push_many / producer_maybe_push_many / the overflow fallback).
push_many_store ==
    /\ ppc = "push_many_store"
    /\ buffer' = copy_slice(buffer, tail, Payload(p_arg.v, p_arg.n), CAPACITY)
    /\ tail' = wrapping_add(tail, p_arg.n)
    /\ Return([op |-> p_arg.op, res |-> "Ok", vals |-> <<>>])
    /\ UNCHANGED <<cfgvars, uvars, head, sink, pushed, last_popped, delivered, cvars>>

\* producer_push_many: load head and tail, then overflow or bulk copy.
producer_push_many ==
    /\ ppc = "idle" /\ CounterInRun
    /\ \E n \in 1..MaxSlice :
        /\ pushed + n <= push_limit
        /\ pushed' = pushed + n
        /\ p_arg' = [op |-> "push_many", v |-> pushed + 1, n |-> n]
        /\ p_head' = head
        /\ p_ret' = NoRet
        /\ ppc' = IF len(head, tail) + n > CAPACITY
                  THEN IF debug_assertions
                          /\ ~overflow_assertion(tail, head, CAPACITY)
                       THEN "panicked" ELSE "handle_overflow_many"
                  ELSE "push_many_store"
    /\ UNCHANGED <<cfgvars, uvars, qvars, sink, last_popped, delivered, cvars>>

\* producer_maybe_push_many: Err(()) when the slice does not fit.
producer_maybe_push_many ==
    /\ ppc = "idle" /\ CounterInRun
    /\ \E n \in 1..MaxSlice :
        /\ pushed + n <= push_limit
        /\ IF len(head, tail) + n > CAPACITY
           THEN /\ Return([op |-> "maybe_push_many", res |-> "Err",
                           vals |-> Payload(pushed + 1, n)])
                /\ UNCHANGED pushed
           ELSE /\ ppc' = "push_many_store"
                /\ p_head' = head
                /\ p_arg' = [op |-> "maybe_push_many", v |-> pushed + 1, n |-> n]
                /\ pushed' = pushed + n
                /\ p_ret' = NoRet
    /\ UNCHANGED <<cfgvars, uvars, qvars, sink, last_popped, delivered, cvars>>

\* Faulty variant: push_many_unchecked whose second copy_slice starts at the
\* old tail again, so last overwrites first.
producer_push_many_unchecked_overlapping ==
    /\ ppc = "idle" /\ CounterInRun
    /\ \E nf \in 0..MaxSlice, nl \in 0..MaxSlice :
        LET first == Payload(pushed + 1, nf)
            last == Payload(pushed + nf + 1, nl)
            b1 == copy_slice(buffer, tail, first, CAPACITY)
            b2 == copy_slice(b1, tail, last, CAPACITY)
        IN  /\ pushed + nf + nl <= push_limit
            /\ pushed' = pushed + nf + nl
            /\ IF len(head, tail) + nf + nl <= CAPACITY
               THEN /\ buffer' = b2
                    /\ tail' = wrapping_add(wrapping_add(tail, nf), nl)
                    /\ Return([op |-> "push_many_unchecked", res |-> "Ok",
                               vals |-> first \o last])
               ELSE /\ ppc' = IF debug_assertions THEN "panicked"
                              ELSE "undefined"
                    /\ UNCHANGED <<tail, buffer, p_head, p_arg, p_ret>>
    /\ UNCHANGED <<cfgvars, uvars, head, sink, last_popped, delivered, cvars>>

\* producer_push_many_unchecked(first, last): the two copy_slice calls at
\* tail and the one store of tail. (The head loaded by the debug build feeds
\* its assertion only, so the call is one step.) A call that breaks the
\* contract panics in the debug build; in the release build it writes past
\* the free slots, which is undefined behaviour and is not followed further.
producer_push_many_unchecked ==
    /\ ppc = "idle" /\ CounterInRun
    /\ \E nf \in 0..MaxSlice, nl \in 0..MaxSlice :
        LET first == Payload(pushed + 1, nf)
            last == Payload(pushed + nf + 1, nl)
            b1 == copy_slice(buffer, tail, first, CAPACITY)
            b2 == copy_slice(b1, wrapping_add(tail, nf), last, CAPACITY)
        IN  /\ pushed + nf + nl <= push_limit
            /\ pushed' = pushed + nf + nl
            /\ IF len(head, tail) + nf + nl <= CAPACITY
               THEN /\ buffer' = b2
                    /\ tail' = wrapping_add(wrapping_add(tail, nf), nl)
                    /\ Return([op |-> "push_many_unchecked", res |-> "Ok",
                               vals |-> first \o last])
               ELSE /\ ppc' = IF debug_assertions THEN "panicked"
                              ELSE "undefined"
                    /\ UNCHANGED <<tail, buffer, p_head, p_arg, p_ret>>
    /\ UNCHANGED <<cfgvars, uvars, head, sink, last_popped, delivered, cvars>>

\* handle_overflow_many: one turn of its loop (the compare_exchange_weak).
handle_overflow_many ==
    /\ ppc = "handle_overflow_many"
    /\ LET s == overflow_slices(buffer, p_head, CAPACITY)
           l == len(head, tail)
       IN
       IF head = p_head
       THEN /\ head' = wrapping_add(p_head, NUM_VALUES_TAKEN(CAPACITY))
            /\ sink' = push_many_and_slice(sink, s.left, s.right,
                                           Payload(p_arg.v, p_arg.n))
            /\ Return([op |-> p_arg.op, res |-> "Spilled", vals |-> <<>>])
       ELSE /\ p_head' = head
            /\ ppc' = IF l < NUM_VALUES_TAKEN(CAPACITY) /\ l + p_arg.n <= CAPACITY
                      THEN "push_many_store" ELSE "handle_overflow_many"
            /\ UNCHANGED <<head, sink, p_arg, p_ret>>
    /\ UNCHANGED <<cfgvars, uvars, tail, buffer, pushed, last_popped, delivered, cvars>>

\* ------------------------------------------------------ producer: popping
\* producer_pop: load head and tail; None when they are equal.
producer_pop ==
    /\ ppc = "idle" /\ CounterInRun
    /\ IF head = tail
       THEN Return([op |-> "pop", res |-> "None", vals |-> <<>>])
       ELSE /\ ppc' = "producer_pop_cas"
            /\ p_head' = head
            /\ p_arg' = [op |-> "pop", v |-> 0, n |-> 1]
            /\ p_ret' = NoRet
    /\ UNCHANGED <<cfgvars, uvars, qvars, sink, pushed, last_popped, delivered, cvars>>

\* producer_pop whose loop keeps the head it loaded first when the
\* compare-exchange fails (the Err(new_head) arm dropped).
producer_pop_cas_stale ==
    /\ ppc = "producer_pop_cas"
    /\ IF head = p_head
       THEN /\ head' = wrapping_add(p_head, 1)
            /\ LET v == buffer[p_head % CAPACITY] IN
               /\ Return([op |-> "pop", res |-> "Some", vals |-> <<v>>])
               /\ last_popped' = v
               /\ delivered' = Handed(delivered, <<v>>)
       ELSE /\ IF p_head = tail
               THEN Return([op |-> "pop", res |-> "None", vals |-> <<>>])
               ELSE UNCHANGED <<ppc, p_head, p_arg, p_ret>>
            /\ UNCHANGED <<head, last_popped, delivered>>
    /\ UNCHANGED <<cfgvars, uvars, tail, buffer, sink, pushed, cvars>>

\* producer_pop: the compare_exchange_weak(head, head + 1) and what follows.
producer_pop_cas ==
    /\ ppc = "producer_pop_cas"
    /\ IF head = p_head
       THEN /\ head' = wrapping_add(p_head, 1)
            /\ LET v == buffer[p_head % CAPACITY] IN
               /\ Return([op |-> "pop", res |-> "Some", vals |-> <<v>>])
               /\ last_popped' = v
               /\ delivered' = Handed(delivered, <<v>>)
       ELSE /\ IF head = tail
               THEN Return([op |-> "pop", res |-> "None", vals |-> <<>>])
               ELSE /\ p_head' = head
                    /\ UNCHANGED <<ppc, p_arg, p_ret>>
            /\ UNCHANGED <<head, last_popped, delivered>>
    /\ UNCHANGED <<cfgvars, uvars, tail, buffer, sink, pushed, cvars>>

\* producer_pop_many: load head and tail; n = min(dst.len(), available).
producer_pop_many ==
    /\ ppc = "idle" /\ CounterInRun
    /\ \E dst_len \in DstLens :
        LET n == Min(dst_len, len(head, tail)) IN
        IF n = 0
        THEN Return([op |-> "pop_many", res |-> "Count", vals |-> <<>>])
        ELSE /\ ppc' = IF debug_assertions /\ n > CAPACITY
                       THEN "panicked" ELSE "producer_pop_many_cas"
             /\ p_head' = head
             /\ p_arg' = [op |-> "pop_many", v |-> 0, n |-> dst_len]
             /\ p_ret' = NoRet
    /\ UNCHANGED <<cfgvars, uvars, qvars, sink, pushed, last_popped, delivered, cvars>>

\* producer_pop_many: the compare_exchange_weak(head, head + n), the copy
\* into dst on success, the recomputed n on failure.
producer_pop_many_cas ==
    /\ ppc = "producer_pop_many_cas"
    /\ LET n == Min(p_arg.n, len(p_head, tail)) IN
       IF head = p_head
       THEN /\ head' = wrapping_add(p_head, n)
            /\ LET got == copy_out(buffer, p_head, n, CAPACITY) IN
               /\ Return([op |-> "pop_many", res |-> "Count", vals |-> got])
               /\ delivered' = Handed(delivered, got)
       ELSE /\ LET n2 == Min(p_arg.n, len(head, tail)) IN
               IF n2 = 0
               THEN Return([op |-> "pop_many", res |-> "Count", vals |-> <<>>])
               ELSE /\ ppc' = IF debug_assertions /\ n2 > CAPACITY
                              THEN "panicked" ELSE "producer_pop_many_cas"
                    /\ p_head' = head
                    /\ UNCHANGED <<p_arg, p_ret>>
            /\ UNCHANGED <<head, delivered>>
    /\ UNCHANGED <<cfgvars, uvars, tail, buffer, sink, pushed, last_popped, cvars>>

\* ---------------------------------------------------------------- consumers
\* The consumer's call is over: its locals are dead.
Returned(c) == cons' = [cons EXCEPT ![c] = IdleConsumer]

\* consumer_pop_many, top of the 'top loop with the locals h and t:
\* n = min(dst.len(), len(h, t)); 0 returns, n > CAPACITY reloads head.
pop_many_top(c, h, t) ==
    LET n == Min(cons[c].len, len(h, t)) IN
    IF n = 0
    THEN Returned(c)
    ELSE cons' = [cons EXCEPT ![c].head = h, ![c].tail = t, ![c].n = n,
                              ![c].pc = IF n > CAPACITY
                                        THEN "pop_many_reload_head"
                                        ELSE "pop_many_copy"]

\* consumer_pop_many: the first load of head.
consumer_pop_many(c) ==
    /\ c \in handles /\ cons[c].pc = "idle" /\ CounterInRun
    /\ \E dst_len \in DstLens :
        cons' = [cons EXCEPT ![c].pc = "pop_many_load_tail",
                             ![c].head = head, ![c].len = dst_len]
    /\ UNCHANGED <<cfgvars, uvars, qvars, sink, pvars, pushed, last_popped,
                   delivered, dstq>>

\* consumer_pop_many: the load of tail (the first one, or the one after a
\* failed compare-exchange), then the top of the loop.
pop_many_load_tail(c) ==
    /\ cons[c].pc = "pop_many_load_tail"
    /\ pop_many_top(c, cons[c].head, tail)
    /\ UNCHANGED <<cfgvars, uvars, qvars, sink, pvars, pushed, last_popped,
                   delivered, dstq>>

\* consumer_pop_many: n > CAPACITY, head is loaded again (tail is not).
pop_many_reload_head(c) ==
    /\ cons[c].pc = "pop_many_reload_head"
    /\ pop_many_top(c, head, cons[c].tail)
    /\ UNCHANGED <<cfgvars, uvars, qvars, sink, pvars, pushed, last_popped,
                   delivered, dstq>>

\* consumer_pop_many: the optimistic copy of n slots into dst.
pop_many_copy(c) ==
    /\ cons[c].pc = "pop_many_copy"
    /\ cons' = [cons EXCEPT
                  ![c].dst = copy_out(buffer, cons[c].head, cons[c].n, CAPACITY),
                  ![c].pc = "pop_many_cas"]
    /\ UNCHANGED <<cfgvars, uvars, qvars, sink, pvars, pushed, last_popped,
                   delivered, dstq>>

\* Faulty variant: consumer_pop_many with a plain store in place of the
\* compare-exchange.
pop_many_store(c) ==
    /\ cons[c].pc = "pop_many_cas"
    /\ head' = wrapping_add(cons[c].head, cons[c].n)
    /\ delivered' = Handed(delivered, cons[c].dst)
    /\ Returned(c)
    /\ UNCHANGED <<cfgvars, uvars, tail, buffer, sink, pvars, pushed, last_popped, dstq>>

\* consumer_pop_many: compare_exchange_weak(head, head + n).
pop_many_cas(c) ==
    /\ cons[c].pc = "pop_many_cas"
    /\ IF head = cons[c].head
       THEN /\ head' = wrapping_add(cons[c].head, cons[c].n)
            /\ delivered' = Handed(delivered, cons[c].dst)
            /\ Returned(c)
       ELSE /\ cons' = [cons EXCEPT ![c].head = head, ![c].dst = <<>>,
                                    ![c].pc = "pop_many_load_tail"]
            /\ UNCHANGED <<head, delivered>>
    /\ UNCHANGED <<cfgvars, uvars, tail, buffer, sink, pvars, pushed, last_popped, dstq>>

\* steal_into: load src head and dst tail; the debug build asserts dst empty
\* (the model's callers keep that precondition).
steal_into(c) ==
    /\ c \in handles /\ cons[c].pc = "idle" /\ CounterInRun
    /\ dstq[c].head = dstq[c].tail
    /\ cons' = [cons EXCEPT ![c].pc = "steal_load_tail", ![c].head = head]
    /\ UNCHANGED <<cfgvars, uvars, qvars, sink, pvars, pushed, last_popped,
                   delivered, dstq>>

\* Faulty variant: steal_into on a non-empty dst without the assertion.
steal_into_unasserted(c) ==
    /\ c \in handles /\ cons[c].pc = "idle" /\ CounterInRun
    /\ dstq[c].head # dstq[c].tail
    /\ cons' = [cons EXCEPT ![c].pc = "steal_load_tail", ![c].head = head]
    /\ UNCHANGED <<cfgvars, uvars, qvars, sink, pvars, pushed, last_popped,
                   delivered, dstq>>

\* steal_into called with a dst that is not empty: the debug build's
\* assert_eq!(dst_head, dst_tail) panics right after the loads; the release
\* build has no check and goes on.
steal_into_occupied(c) ==
    /\ c \in handles /\ cons[c].pc = "idle" /\ CounterInRun
    /\ dstq[c].head # dstq[c].tail
    /\ cons' = IF debug_assertions
               THEN [cons EXCEPT ![c].pc = "panicked"]
               ELSE [cons EXCEPT ![c].pc = "steal_load_tail", ![c].head = head]
    /\ UNCHANGED <<cfgvars, uvars, qvars, sink, pvars, pushed, last_popped,
                   delivered, dstq>>

\* steal_into, top of the 'top loop: load src tail, n = len / 2, the
\* inconsistent-view test and the threshold.
steal_load_tail(c) ==
    /\ cons[c].pc = "steal_load_tail"
    /\ LET n == len(cons[c].head, tail) \div 2 IN
       IF n > CAPACITY \div 2
       THEN cons' = [cons EXCEPT ![c].pc = "steal_reload_head"]
       ELSE IF (~always_steal /\ n < StealThreshold) \/ n = 0
       THEN Returned(c)
       ELSE cons' = [cons EXCEPT ![c].pc = "steal_copy", ![c].n = n]
    /\ UNCHANGED <<cfgvars, uvars, qvars, sink, pvars, pushed, last_popped,
                   delivered, dstq>>

\* steal_into: n > CAPACITY / 2, src head is loaded again.
steal_reload_head(c) ==
    /\ cons[c].pc = "steal_reload_head"
    /\ cons' = [cons EXCEPT ![c].pc = "steal_load_tail", ![c].head = head]
    /\ UNCHANGED <<cfgvars, uvars, qvars, sink, pvars, pushed, last_popped,
                   delivered, dstq>>

\* Faulty variant: steal_slices with the wrapped part handed over first.
steal_slices_swapped(buf, h, n, cap) ==
    LET src_head_idx == h % cap
        right_occupied == cap - src_head_idx
    IN  IF n <= right_occupied
        THEN [right |-> [j \in 1..n |-> Slot(buf, src_head_idx + j - 1, cap)],
              left  |-> <<>>]
        ELSE [right |-> [j \in 1..(n - right_occupied) |-> Slot(buf, j - 1, cap)],
              left  |-> [j \in 1..right_occupied |->
                            Slot(buf, src_head_idx + j - 1, cap)]]

\* steal_into: (src_right, src_left) of n slots starting at src_head.
steal_slices(buf, h, n, cap) ==
    LET src_head_idx == h % cap
        right_occupied == cap - src_head_idx
    IN  IF n <= right_occupied
        THEN [right |-> [j \in 1..n |-> Slot(buf, src_head_idx + j - 1, cap)],
              left  |-> <<>>]
        ELSE [right |-> [j \in 1..right_occupied |->
                            Slot(buf, src_head_idx + j - 1, cap)],
              left  |-> [j \in 1..(n - right_occupied) |-> Slot(buf, j - 1, cap)]]

\* steal_into: the two optimistic copy_slice calls into dst's buffer.
steal_copy(c) ==
    /\ cons[c].pc = "steal_copy"
    /\ LET s == steal_slices(buffer, cons[c].head, cons[c].n, CAPACITY)
           dst_tail == dstq[c].tail
           b1 == copy_slice(dstq[c].buffer, dst_tail % CAPACITY, s.right, CAPACITY)
           b2 == copy_slice(b1, wrapping_add(dst_tail, Len(s.right)) % CAPACITY,
                            s.left, CAPACITY)
       IN  dstq' = [dstq EXCEPT ![c].buffer = b2]
    /\ cons' = [cons EXCEPT ![c].pc = "steal_cas"]
    /\ UNCHANGED <<cfgvars, uvars, qvars, sink, pvars, pushed, last_popped, delivered>>

\* Faulty variant: the tail of dst moved before the compare-exchange, so a
\* failed attempt leaves the copied values visible in dst.
steal_cas_publishing(c) ==
    /\ cons[c].pc = "steal_cas"
    /\ IF head = cons[c].head
       THEN /\ head' = wrapping_add(cons[c].head, cons[c].n)
            /\ cons' = [cons EXCEPT ![c].pc = "steal_store"]
            /\ UNCHANGED dstq
       ELSE /\ cons' = [cons EXCEPT ![c].pc = "steal_load_tail",
                                    ![c].head = head, ![c].n = 0]
            /\ dstq' = [dstq EXCEPT
                  ![c].tail = wrapping_add(dstq[c].tail, cons[c].n)]
            /\ UNCHANGED head
    /\ UNCHANGED <<cfgvars, uvars, tail, buffer, sink, pvars, pushed, last_popped,
                   delivered>>

\* steal_into: compare_exchange(src_head, src_head + n).
steal_cas(c) ==
    /\ cons[c].pc = "steal_cas"
    /\ IF head = cons[c].head
       THEN /\ head' = wrapping_add(cons[c].head, cons[c].n)
            /\ cons' = [cons EXCEPT ![c].pc = "steal_store"]
       ELSE /\ cons' = [cons EXCEPT ![c].pc = "steal_load_tail",
                                    ![c].head = head, ![c].n = 0]
            /\ UNCHANGED head
    /\ UNCHANGED <<cfgvars, uvars, tail, buffer, sink, pvars, pushed, last_popped,
                   delivered, dstq>>

\* steal_into: dst.tail.store(dst_tail + n), return n.
steal_store(c) ==
    /\ cons[c].pc = "steal_store"
    /\ dstq' = [dstq EXCEPT ![c].tail = wrapping_add(dstq[c].tail, cons[c].n)]
    /\ Returned(c)
    /\ UNCHANGED <<cfgvars, uvars, qvars, sink, pvars, pushed, last_popped, delivered>>

\* The owner of a dst queue takes its oldest element (producer_pop on dst;
\* nobody else touches dst, so the call runs undisturbed).
dst_pop(c) ==
    /\ cons[c].pc = "idle"
    /\ dstq[c].head # dstq[c].tail
    /\ dstq' = [dstq EXCEPT ![c].head = wrapping_add(dstq[c].head, 1)]
    /\ delivered' = Handed(delivered,
                           <<dstq[c].buffer[dstq[c].head % CAPACITY]>>)
    /\ UNCHANGED <<cfgvars, uvars, qvars, sink, pvars, pushed, last_popped, cons>>

\* =========================================================================
\* SPMCUnboundedQueue
\* =========================================================================
\* The two halves of the packed word are modelled with the width of
\* LongModulus each.
pack_version_and_tail(version, t) == version * LongModulus + t
unpack_version_and_tail(value) ==
    [version |-> value \div LongModulus, tail |-> value % LongModulus]

\* x & mask, for a mask of the form 2^k - 1.
BitAnd(x, mask) == x % (mask + 1)

\* Version::alloc_new
alloc_new(cap, id) ==
    [ptr |-> [i \in 0..(cap - 1) |-> Uninit], mask |-> cap - 1, id |-> id]

\* CachedVersion::capacity: ptr.len()
capacity(version) == Cardinality(DOMAIN version.ptr)

\* The Version a cached version with this id points to.
Version(id) == versions[id + 1]

\* Faulty variant: every version older than the producer's is deallocated,
\* whether a consumer handle still caches it or not.
drop_versions_uncounted(vs, producer_id, cached) ==
    [i \in DOMAIN vs |->
        IF i - 1 >= producer_id
        THEN vs[i]
        ELSE alloc_new(capacity(vs[i]), vs[i].id)]

\* Drop for Version: a version no LightArc points to any more is
\* deallocated; its memory is never read again. The producer holds its
\* cached version (id producer_id) and each later one (the one it is making
\* and last_version), the consumer handles hold the ones they cached.
drop_versions(vs, producer_id, cached) ==
    [i \in DOMAIN vs |->
        IF i - 1 >= producer_id \/ (\E c \in handles : cached[c] = i - 1)
        THEN vs[i]
        ELSE alloc_new(capacity(vs[i]), vs[i].id)]

\* unsync_load_tail / sync_load_version_and_tail
unsync_load_tail == unpack_version_and_tail(tail_and_version).tail
sync_load_version_and_tail == unpack_version_and_tail(tail_and_version)

\* SPMCUnboundedQueue::new, with the threads and the bounds of the run, in
\* the debug build with the always_steal feature.
InitUnbounded(limit, last_id, hs) ==
    /\ InitThreads(limit, hs, InitialCapacity)
    /\ version_limit = last_id
    /\ always_steal = TRUE
    /\ debug_assertions = TRUE
    /\ CAPACITY = 0 /\ head = 0 /\ tail = 0 /\ buffer = EmptyBuffer(0)
    /\ sink = <<>>
    /\ u_head = 0 /\ tail_and_version = pack_version_and_tail(0, 0)
    /\ versions = <<alloc_new(InitialCapacity, 0)>>
    /\ last_version = 0 /\ lock = FALSE
    /\ p_version = 0 /\ c_version = [c \in Consumers |-> 0] /\ p_tail = 0

InitU ==
    \/ InitUnbounded(MaxPushU, MaxVersionId, Consumers)
    \/ InitUnbounded(MaxPushUOne, MaxVersionIdOne, {"c1"})
    \/ InitUnbounded(MaxPushUNoGrow, 0, {"c1"})

\* SPMCUnboundedQueue::copy_slice: the buffer after writing slice at
\* start_tail, wrap-aware.
version_copy_slice(ptr, start_tail, slice, version) ==
    LET tail_idx == BitAnd(start_tail, version.mask)
        n == Len(slice)
        right == capacity(version) - tail_idx
    IN  IF tail_idx + n <= capacity(version)
        THEN [i \in DOMAIN ptr |->
                IF i >= tail_idx /\ i < tail_idx + n
                THEN slice[i - tail_idx + 1] ELSE ptr[i]]
        ELSE [i \in DOMAIN ptr |->
                IF i >= tail_idx THEN slice[i - tail_idx + 1]
                ELSE IF i < n - right THEN slice[right + i + 1]
                ELSE ptr[i]]

\* The wrap-aware copy of n slots starting at head out of a version's buffer
\* (producer_pop_many, consumer_pop_many).
version_copy_out(version, h, n) ==
    LET head_idx == BitAnd(h, version.mask)
        right == capacity(version) - head_idx
    IN  IF n <= right
        THEN [j \in 1..n |-> Slot(version.ptr, head_idx + j - 1, capacity(version))]
        ELSE [j \in 1..n |->
                IF j <= right
                THEN Slot(version.ptr, head_idx + j - 1, capacity(version))
                ELSE Slot(version.ptr, j - right - 1, capacity(version))]

\* Faulty variant: the slices of the old buffer without the part that wrapped
\* around its end.
version_slices_unwrapped(old, h, t) ==
    IF h = t
    THEN [right |-> <<>>, left |-> <<>>]
    ELSE LET old_head_idx == BitAnd(h, old.mask)
             old_tail_idx == BitAnd(t, old.mask)
         IN  IF old_head_idx < old_tail_idx
             THEN [right |-> [j \in 1..(old_tail_idx - old_head_idx) |->
                                old.ptr[old_head_idx + j - 1]],
                   left  |-> <<>>]
             ELSE [right |-> [j \in 1..(capacity(old) - old_head_idx) |->
                                old.ptr[old_head_idx + j - 1]],
                   left  |-> <<>>]

\* create_new_version...: (src_right, src_left) of the old buffer.
version_slices(old, h, t) ==
    IF h = t
    THEN [right |-> <<>>, left |-> <<>>]
    ELSE LET old_head_idx == BitAnd(h, old.mask)
             old_tail_idx == BitAnd(t, old.mask)
         IN  IF old_head_idx < old_tail_idx
             THEN [right |-> [j \in 1..(old_tail_idx - old_head_idx) |->
                                old.ptr[old_head_idx + j - 1]],
                   left  |-> <<>>]
             ELSE [right |-> [j \in 1..(capacity(old) - old_head_idx) |->
                                old.ptr[old_head_idx + j - 1]],
                   left  |-> [j \in 1..old_tail_idx |-> old.ptr[j - 1]]]

\* Faulty variant: the new version filled from slot 0 on, not from the slot
\* of head.
create_new_version_from_slot_0(h, t, new_capacity, old) ==
    LET s == version_slices(old, h, t)
        fresh == alloc_new(new_capacity, old.id + 1)
        b1 == version_copy_slice(fresh.ptr, 0, s.right, fresh)
        b2 == version_copy_slice(b1, Len(s.right), s.left, fresh)
    IN  [version |-> [fresh EXCEPT !.ptr = b2],
         tail |-> wrapping_add(wrapping_add(h, Len(s.right)), Len(s.left))]

\* create_new_version_and_write_it_but_not_update_tail, up to the write of
\* last_version: the new version, holding the old one's elements from the
\* slot of head on, and the tail after them.
create_new_version_and_write_it_but_not_update_tail(h, t, new_capacity, old) ==
    LET s == version_slices(old, h, t)
        fresh == alloc_new(new_capacity, old.id + 1)
        b1 == version_copy_slice(fresh.ptr, h, s.right, fresh)
        t1 == wrapping_add(h, Len(s.right))
        b2 == version_copy_slice(b1, t1, s.left, fresh)
    IN  [version |-> [fresh EXCEPT !.ptr = b2],
         tail |-> wrapping_add(t1, Len(s.left))]

\* Faulty variant: the new capacity without the while loop.
doubled_once(new_capacity, least) == new_capacity

\* handle_overflow: capacity * 2, doubled while <= capacity + values.len().
RECURSIVE doubled_past(_, _)
doubled_past(new_capacity, least) ==
    IF new_capacity <= least
    THEN doubled_past(new_capacity * 2, least)
    ELSE new_capacity
overflow_capacity(version, n) ==
    doubled_past(capacity(version) * 2, capacity(version) + n)

\* ----------------------------------------------- unbounded producer: pushing
\* What every step on the unbounded queue leaves alone.
BoundedUnchanged == UNCHANGED <<cfgvars, qvars, sink>>

\* What the pushing call in progress returns: push and push_many return
\* nothing, maybe_push and maybe_push_many return Ok(()) after the same call.
u_push_result ==
    IF p_arg.op \in {"maybe_push", "maybe_push_many"}
    THEN [op |-> p_arg.op, res |-> "Ok", vals |-> <<>>]
    ELSE NoRet

\* push_unchecked: write the slot of the cached version, then store the
\* packed (version.id, tail + 1).
u_push_unchecked ==
    /\ ppc = "u_push_unchecked"
    /\ LET v == Version(p_version)
           t == unsync_load_tail
       IN  /\ versions' = [versions EXCEPT
                 ![p_version + 1].ptr[BitAnd(t, v.mask)] = p_arg.v]
           /\ tail_and_version' =
                 pack_version_and_tail(v.id, wrapping_add(t, 1))
    /\ Return(u_push_result)
    /\ UNCHANGED <<u_head, last_version, lock, p_version, c_version, p_tail,
                   pushed, last_popped, delivered, cvars>>
    /\ BoundedUnchanged

\* producer_push: load head and tail; handle_overflow when len == capacity.
u_producer_push ==
    /\ ppc = "idle" /\ pushed < push_limit
    /\ len(u_head, unsync_load_tail) = capacity(Version(p_version))
          => p_version < version_limit
    /\ pushed' = pushed + 1
    /\ p_arg' = [op |-> "push", v |-> pushed + 1, n |-> 1]
    /\ p_head' = u_head
    /\ p_ret' = NoRet
    /\ ppc' = IF len(u_head, unsync_load_tail) = capacity(Version(p_version))
              THEN "u_handle_overflow" ELSE "u_push_unchecked"
    /\ UNCHANGED <<uvars, last_popped, delivered, cvars>>
    /\ BoundedUnchanged

\* Faulty variant: maybe_push that gives up on a full queue, as the bounded
\* queue's does.
u_producer_maybe_push_bounded ==
    /\ ppc = "idle" /\ pushed < push_limit
    /\ IF len(u_head, unsync_load_tail) = capacity(Version(p_version))
       THEN /\ Return([op |-> "maybe_push", res |-> "Err",
                       vals |-> <<pushed + 1>>])
            /\ UNCHANGED pushed
       ELSE /\ pushed' = pushed + 1
            /\ p_arg' = [op |-> "maybe_push", v |-> pushed + 1, n |-> 1]
            /\ p_head' = u_head
            /\ p_ret' = NoRet
            /\ ppc' = "u_push_unchecked"
    /\ UNCHANGED <<uvars, last_popped, delivered, cvars>>
    /\ BoundedUnchanged

\* maybe_push: producer_push, then Ok(()).
u_producer_maybe_push ==
    /\ ppc = "idle" /\ pushed < push_limit
    /\ len(u_head, unsync_load_tail) = capacity(Version(p_version))
          => p_version < version_limit
    /\ pushed' = pushed + 1
    /\ p_arg' = [op |-> "maybe_push", v |-> pushed + 1, n |-> 1]
    /\ p_head' = u_head
    /\ p_ret' = NoRet
    /\ ppc' = IF len(u_head, unsync_load_tail) = capacity(Version(p_version))
              THEN "u_handle_overflow" ELSE "u_push_unchecked"
    /\ UNCHANGED <<uvars, last_popped, delivered, cvars>>
    /\ BoundedUnchanged

\* producer_push_many, no overflow: copy_slice at tail, store the packed word.
u_push_many_store ==
    /\ ppc = "u_push_many_store"
    /\ LET v == Version(p_version)
           t == unsync_load_tail
       IN  /\ versions' = [versions EXCEPT ![p_version + 1].ptr =
                 version_copy_slice(v.ptr, t, Payload(p_arg.v, p_arg.n), v)]
           /\ tail_and_version' =
                 pack_version_and_tail(v.id, wrapping_add(t, p_arg.n))
    /\ Return(u_push_result)
    /\ UNCHANGED <<u_head, last_version, lock, p_version, c_version, p_tail,
                   pushed, last_popped, delivered, cvars>>
    /\ BoundedUnchanged

\* producer_push_many: load head and tail; handle_overflow when the slice
\* does not fit.
u_producer_push_many ==
    /\ ppc = "idle"
    /\ \E n \in 1..MaxSliceU :
        /\ pushed + n <= push_limit
        /\ len(u_head, unsync_load_tail) + n > capacity(Version(p_version))
              => p_version < version_limit
        /\ pushed' = pushed + n
        /\ p_arg' = [op |-> "push_many", v |-> pushed + 1, n |-> n]
        /\ p_head' = u_head
        /\ p_ret' = NoRet
        /\ ppc' = IF len(u_head, unsync_load_tail) + n
                        > capacity(Version(p_version))
                  THEN "u_handle_overflow" ELSE "u_push_many_store"
    /\ UNCHANGED <<uvars, last_popped, delivered, cvars>>
    /\ BoundedUnchanged

\* maybe_push_many: producer_push_many, then Ok(()).
u_producer_maybe_push_many ==
    /\ ppc = "idle"
    /\ \E n \in 1..MaxSliceU :
        /\ pushed + n <= push_limit
        /\ len(u_head, unsync_load_tail) + n > capacity(Version(p_version))
              => p_version < version_limit
        /\ pushed' = pushed + n
        /\ p_arg' = [op |-> "maybe_push_many", v |-> pushed + 1, n |-> n]
        /\ p_head' = u_head
        /\ p_ret' = NoRet
        /\ ppc' = IF len(u_head, unsync_load_tail) + n
                        > capacity(Version(p_version))
                  THEN "u_handle_overflow" ELSE "u_push_many_store"
    /\ UNCHANGED <<uvars, last_popped, delivered, cvars>>
    /\ BoundedUnchanged

\* producer_push_many_unchecked(first, last) of the unbounded queue: the two
\* copy_slice calls into the cached version and the one store of the packed
\* (version.id, tail); a call that breaks the contract as for the bounded
\* queue.
u_producer_push_many_unchecked ==
    /\ ppc = "idle"
    /\ \E nf \in 0..MaxSliceU, nl \in 0..MaxSliceU :
        LET v == Version(p_version)
            t == unsync_load_tail
            first == Payload(pushed + 1, nf)
            last == Payload(pushed + nf + 1, nl)
            b1 == version_copy_slice(v.ptr, t, first, v)
            b2 == version_copy_slice(b1, wrapping_add(t, nf), last, v)
        IN  /\ pushed + nf + nl <= push_limit
            /\ pushed' = pushed + nf + nl
            /\ IF len(u_head, t) + nf + nl <= capacity(v)
               THEN /\ versions' = [versions EXCEPT ![p_version + 1].ptr = b2]
                    /\ tail_and_version' = pack_version_and_tail(
                          v.id, wrapping_add(wrapping_add(t, nf), nl))
                    /\ Return([op |-> "push_many_unchecked", res |-> "Ok",
                               vals |-> first \o last])
               ELSE /\ ppc' = IF debug_assertions THEN "panicked"
                              ELSE "undefined"
                    /\ UNCHANGED <<tail_and_version, versions, p_head, p_arg,
                                   p_ret>>
    /\ UNCHANGED <<u_head, last_version, lock, p_version, c_version, p_tail,
                   last_popped, delivered, cvars>>
    /\ BoundedUnchanged

\* producer_reserve with twice the capacity (head is loaded in the call of
\* create_new_version_and_write_it_but_not_update_tail).
u_producer_reserve ==
    /\ ppc = "idle" /\ p_version < version_limit
    /\ p_arg' = [op |-> "reserve", v |-> capacity(Version(p_version)) * 2,
                 n |-> 0]
    /\ p_head' = 0
    /\ p_ret' = NoRet
    /\ ppc' = "u_handle_overflow"
    /\ UNCHANGED <<uvars, pushed, last_popped, delivered, cvars>>
    /\ BoundedUnchanged

\* Faulty variant: the id of the new version stored into the packed word
\* before last_version is written.
u_handle_overflow_id_first ==
    /\ ppc = "u_handle_overflow"
    /\ LET old == Version(p_version)
           new_capacity == IF p_arg.op = "reserve" THEN p_arg.v
                           ELSE overflow_capacity(old, p_arg.n)
           h == IF p_arg.op = "reserve" THEN u_head ELSE p_head
           made == create_new_version_and_write_it_but_not_update_tail(
                       h, unsync_load_tail, new_capacity, old)
       IN  /\ versions' = Append(versions, made.version)
           /\ p_tail' = made.tail
           /\ tail_and_version' =
                 pack_version_and_tail(p_version + 1, unsync_load_tail)
    /\ lock' = TRUE
    /\ ppc' = "u_write_last_version"
    /\ UNCHANGED <<u_head, last_version, p_version,
                   c_version, p_head, p_arg, p_ret, pushed, last_popped,
                   delivered, cvars>>
    /\ BoundedUnchanged

\* handle_overflow / producer_reserve: the new capacity, the new version
\* filled with the live elements, and last_version.write() taking the lock.
u_handle_overflow ==
    /\ ppc = "u_handle_overflow"
    /\ LET old == Version(p_version)
           new_capacity == IF p_arg.op = "reserve" THEN p_arg.v
                           ELSE overflow_capacity(old, p_arg.n)
           h == IF p_arg.op = "reserve" THEN u_head ELSE p_head
           made == create_new_version_and_write_it_but_not_update_tail(
                       h, unsync_load_tail, new_capacity, old)
       IN  /\ versions' = Append(versions, made.version)
           /\ p_tail' = made.tail
    /\ lock' = TRUE
    /\ ppc' = "u_write_last_version"
    /\ UNCHANGED <<u_head, tail_and_version, last_version, p_version,
                   c_version, p_head, p_arg, p_ret, pushed, last_popped,
                   delivered, cvars>>
    /\ BoundedUnchanged

\* Faulty variant: the guard is taken and dropped, last_version keeps the
\* old version.
u_write_last_version_skipped ==
    /\ ppc = "u_write_last_version"
    /\ lock' = FALSE
    /\ ppc' = "u_store_tail_and_version"
    /\ UNCHANGED <<u_head, tail_and_version, versions, p_version, c_version,
                   p_tail, p_head, p_arg, p_ret, pushed, last_popped,
                   delivered, cvars, last_version>>
    /\ BoundedUnchanged

\* *self.last_version.write() = new_version; the guard is dropped.
u_write_last_version ==
    /\ ppc = "u_write_last_version"
    /\ last_version' = p_version + 1
    /\ lock' = FALSE
    /\ ppc' = "u_store_tail_and_version"
    /\ UNCHANGED <<u_head, tail_and_version, versions, p_version, c_version,
                   p_tail, p_head, p_arg, p_ret, pushed, last_popped,
                   delivered, cvars>>
    /\ BoundedUnchanged

\* Faulty variant: the new tail published with the id of the old version.
u_store_tail_with_old_id ==
    /\ ppc = "u_store_tail_and_version"
    /\ LET cached_version == Version(p_version + 1) IN
       /\ versions' = drop_versions(
             [versions EXCEPT ![p_version + 2].ptr =
                 version_copy_slice(cached_version.ptr, p_tail,
                                    Payload(p_arg.v, p_arg.n), cached_version)],
             cached_version.id, c_version)
       /\ tail_and_version' = pack_version_and_tail(
             p_version, wrapping_add(p_tail, p_arg.n))
       /\ p_version' = cached_version.id
    /\ p_tail' = 0
    /\ Return(u_push_result)
    /\ UNCHANGED <<u_head, last_version, lock, c_version,
                   pushed, last_popped, delivered, cvars>>
    /\ BoundedUnchanged

\* handle_overflow: copy the values into the new version, store the packed
\* (new id, new tail), replace the cached version  (producer_reserve: the
\* same without values).
u_store_tail_and_version ==
    /\ ppc = "u_store_tail_and_version"
    /\ LET cached_version == Version(p_version + 1) IN
       /\ versions' = drop_versions(
             [versions EXCEPT ![p_version + 2].ptr =
                 version_copy_slice(cached_version.ptr, p_tail,
                                    Payload(p_arg.v, p_arg.n), cached_version)],
             cached_version.id, c_version)
       /\ tail_and_version' = pack_version_and_tail(
             cached_version.id, wrapping_add(p_tail, p_arg.n))
       /\ p_version' = cached_version.id
    /\ p_tail' = 0
    /\ Return(u_push_result)
    /\ UNCHANGED <<u_head, last_version, lock, c_version,
                   pushed, last_popped, delivered, cvars>>
    /\ BoundedUnchanged

\* ----------------------------------------------- unbounded producer: popping
\* producer_pop: load head and tail; None when they are equal.
u_producer_pop ==
    /\ ppc = "idle"
    /\ IF u_head = unsync_load_tail
       THEN Return([op |-> "pop", res |-> "None", vals |-> <<>>])
       ELSE /\ ppc' = "u_producer_pop_cas"
            /\ p_head' = u_head
            /\ p_arg' = [op |-> "pop", v |-> 0, n |-> 1]
            /\ p_ret' = NoRet
    /\ UNCHANGED <<uvars, pushed, last_popped, delivered, cvars>>
    /\ BoundedUnchanged

\* producer_pop: compare_exchange_weak(head, head + 1), then the read of the
\* slot of the cached version.
u_producer_pop_cas ==
    /\ ppc = "u_producer_pop_cas"
    /\ IF u_head = p_head
       THEN /\ u_head' = wrapping_add(p_head, 1)
            /\ LET version == Version(p_version)
                   v == version.ptr[BitAnd(p_head, version.mask)]
               IN  /\ Return([op |-> "pop", res |-> "Some", vals |-> <<v>>])
                   /\ delivered' = Handed(delivered, <<v>>)
       ELSE /\ IF u_head = unsync_load_tail
               THEN Return([op |-> "pop", res |-> "None", vals |-> <<>>])
               ELSE /\ p_head' = u_head
                    /\ UNCHANGED <<ppc, p_arg, p_ret>>
            /\ UNCHANGED <<u_head, delivered>>
    /\ UNCHANGED <<tail_and_version, last_version, lock, versions, p_version,
                   c_version, p_tail, pushed, last_popped, cvars>>
    /\ BoundedUnchanged

\* producer_pop_many: load head and tail; n = min(dst.len(), available).
u_producer_pop_many ==
    /\ ppc = "idle"
    /\ \E dst_len \in UDstLens :
        LET n == Min(dst_len, len(u_head, unsync_load_tail)) IN
        IF n = 0
        THEN Return([op |-> "pop_many", res |-> "Count", vals |-> <<>>])
        ELSE /\ ppc' = IF debug_assertions /\ n > capacity(Version(p_version))
                       THEN "panicked" ELSE "u_producer_pop_many_cas"
             /\ p_head' = u_head
             /\ p_arg' = [op |-> "pop_many", v |-> 0, n |-> dst_len]
             /\ p_ret' = NoRet
    /\ UNCHANGED <<uvars, pushed, last_popped, delivered, cvars>>
    /\ BoundedUnchanged

\* producer_pop_many: compare_exchange_weak(head, head + n), the copy into dst
\* on success, the recomputed n on failure.
u_producer_pop_many_cas ==
    /\ ppc = "u_producer_pop_many_cas"
    /\ LET n == Min(p_arg.n, len(p_head, unsync_load_tail)) IN
       IF u_head = p_head
       THEN /\ u_head' = wrapping_add(p_head, n)
            /\ LET got == version_copy_out(Version(p_version), p_head, n) IN
               /\ Return([op |-> "pop_many", res |-> "Count", vals |-> got])
               /\ delivered' = Handed(delivered, got)
       ELSE /\ LET n2 == Min(p_arg.n, len(u_head, unsync_load_tail)) IN
               IF n2 = 0
               THEN Return([op |-> "pop_many", res |-> "Count", vals |-> <<>>])
               ELSE /\ ppc' = IF debug_assertions /\ n2 > capacity(Version(p_version))
                              THEN "panicked" ELSE "u_producer_pop_many_cas"
                    /\ p_head' = u_head
                    /\ UNCHANGED <<p_arg, p_ret>>
            /\ UNCHANGED <<u_head, delivered>>
    /\ UNCHANGED <<tail_and_version, last_version, lock, versions, p_version,
                   c_version, p_tail, pushed, last_popped, cvars>>
    /\ BoundedUnchanged

\* ------------------------------------------------------- unbounded consumers
\* update_version: try_read fails while the producer holds the write lock;
\* otherwise the handle caches the latest version.
update_version(c) == IF lock THEN c_version[c] ELSE last_version

\* consumer_pop_many, top of the 'top loop with the locals h, (id, t) and the
\* cached version: an older cached version is updated first. Locals that are
\* written again before they are read are reset.
u_pop_many_top(c, h, id, t, cached) ==
    LET n == Min(cons[c].len, len(h, t)) IN
    IF cached < id
    THEN cons' = [cons EXCEPT ![c].head = h, ![c].version = id, ![c].tail = t,
                              ![c].pc = "u_pop_update_version"]
    ELSE IF n = 0
    THEN Returned(c)
    ELSE IF n > capacity(Version(cached))
    THEN cons' = [cons EXCEPT ![c] = [IdleConsumer EXCEPT
                     !.pc = "u_pop_reload_head", !.len = cons[c].len]]
    ELSE cons' = [cons EXCEPT ![c].head = h, ![c].version = id, ![c].tail = 0,
                              ![c].n = n, ![c].pc = "u_pop_copy"]

\* consumer_pop_many: the first load of head.
u_consumer_pop_many(c) ==
    /\ c \in handles /\ cons[c].pc = "idle"
    /\ \E dst_len \in UDstLens :
        cons' = [cons EXCEPT ![c].pc = "u_pop_load_tail",
                             ![c].head = u_head, ![c].len = dst_len]
    /\ UNCHANGED <<uvars, pvars, pushed, last_popped, delivered, dstq>>
    /\ BoundedUnchanged

\* consumer_pop_many: sync_load_version_and_tail (the first one, the one
\* after a reload of head, or the one after a failed compare-exchange).
u_pop_load_tail(c) ==
    /\ cons[c].pc = "u_pop_load_tail"
    /\ u_pop_many_top(c, cons[c].head, sync_load_version_and_tail.version,
                      sync_load_version_and_tail.tail, c_version[c])
    /\ UNCHANGED <<uvars, pvars, pushed, last_popped, delivered, dstq>>
    /\ BoundedUnchanged

\* Faulty variant: consumer_pop_many reading the latest version without
\* try_read (it goes on while the producer holds the write lock).
u_pop_update_version_unlocked(c) ==
    /\ cons[c].pc = "u_pop_update_version"
    /\ c_version' = [c_version EXCEPT ![c] = last_version]
    /\ versions' = drop_versions(versions, p_version, c_version')
    /\ u_pop_many_top(c, cons[c].head, cons[c].version, cons[c].tail,
                      last_version)
    /\ UNCHANGED <<u_head, tail_and_version, last_version, lock, p_version,
                   p_tail, pvars, pushed, last_popped, delivered, dstq>>
    /\ BoundedUnchanged

\* consumer_pop_many: update_version; return 0 when it fails, else continue
\* at the top of the loop.
u_pop_update_version(c) ==
    /\ cons[c].pc = "u_pop_update_version"
    /\ c_version' = [c_version EXCEPT ![c] = update_version(c)]
    /\ versions' = drop_versions(versions, p_version, c_version')
    /\ IF lock
       THEN Returned(c)
       ELSE u_pop_many_top(c, cons[c].head, cons[c].version, cons[c].tail,
                           update_version(c))
    /\ UNCHANGED <<u_head, tail_and_version, last_version, lock, p_version,
                   p_tail, pvars, pushed, last_popped, delivered, dstq>>
    /\ BoundedUnchanged

\* consumer_pop_many: n > capacity, head is loaded again.
u_pop_reload_head(c) ==
    /\ cons[c].pc = "u_pop_reload_head"
    /\ cons' = [cons EXCEPT ![c].pc = "u_pop_load_tail", ![c].head = u_head]
    /\ UNCHANGED <<uvars, pvars, pushed, last_popped, delivered, dstq>>
    /\ BoundedUnchanged

\* consumer_pop_many: the optimistic copy of n slots of the cached version.
u_pop_copy(c) ==
    /\ cons[c].pc = "u_pop_copy"
    /\ cons' = [cons EXCEPT
                  ![c].dst = version_copy_out(Version(c_version[c]),
                                              cons[c].head, cons[c].n),
                  ![c].pc = "u_pop_cas"]
    /\ UNCHANGED <<uvars, pvars, pushed, last_popped, delivered, dstq>>
    /\ BoundedUnchanged

\* consumer_pop_many: compare_exchange_weak(head, head + n).
u_pop_cas(c) ==
    /\ cons[c].pc = "u_pop_cas"
    /\ IF u_head = cons[c].head
       THEN /\ u_head' = wrapping_add(cons[c].head, cons[c].n)
            /\ delivered' = Handed(delivered, cons[c].dst)
            /\ Returned(c)
       ELSE /\ cons' = [cons EXCEPT ![c] = [IdleConsumer EXCEPT
                        !.pc = "u_pop_load_tail", !.head = u_head,
                        !.len = cons[c].len]]
            /\ UNCHANGED <<u_head, delivered>>
    /\ UNCHANGED <<tail_and_version, last_version, lock, versions, p_version,
                   c_version, p_tail, pvars, pushed, last_popped, dstq>>
    /\ BoundedUnchanged

\* Faulty variant: u_steal_top that steals whatever the threshold says.
u_steal_top_eager(c, h, id, t, cached) ==
    LET n == len(h, t) \div 2 IN
    IF cached < id
    THEN cons' = [cons EXCEPT ![c].head = h, ![c].version = id, ![c].tail = t,
                              ![c].pc = "u_steal_update_version"]
    ELSE IF n > capacity(Version(cached)) \div 2
    THEN cons' = [cons EXCEPT ![c] = [IdleConsumer EXCEPT
                     !.pc = "u_steal_reload_head"]]
    ELSE IF n = 0
    THEN Returned(c)
    ELSE cons' = [cons EXCEPT ![c].head = h, ![c].version = id, ![c].tail = 0,
                              ![c].n = Min(n, InitialCapacity),
                              ![c].pc = "u_steal_copy"]

\* steal_into without `n.min(dst_version.capacity())`.
u_steal_top_uncapped(c, h, id, t, cached) ==
    LET n == len(h, t) \div 2 IN
    IF cached < id
    THEN cons' = [cons EXCEPT ![c].head = h, ![c].version = id, ![c].tail = t,
                              ![c].pc = "u_steal_update_version"]
    ELSE IF n > capacity(Version(cached)) \div 2
    THEN cons' = [cons EXCEPT ![c] = [IdleConsumer EXCEPT
                     !.pc = "u_steal_reload_head"]]
    ELSE IF (~always_steal /\ n < StealThreshold) \/ n = 0
    THEN Returned(c)
    ELSE cons' = [cons EXCEPT ![c].head = h, ![c].version = id, ![c].tail = 0,
                              ![c].n = n,
                              ![c].pc = "u_steal_copy"]

\* consumer_capacity: sync_load_version; the cached capacity when the ids are
\* equal, else update_version first.
u_consumer_capacity(c) ==
    /\ c \in handles /\ cons[c].pc = "idle"
    /\ IF c_version[c] = sync_load_version_and_tail.version
       THEN Returned(c)
       ELSE cons' = [cons EXCEPT ![c].pc = "u_capacity_update_version"]
    /\ UNCHANGED <<uvars, pvars, pushed, last_popped, delivered, dstq>>
    /\ BoundedUnchanged

\* Faulty variant: consumer_capacity caching the version the packed word
\* names instead of the latest one.
u_capacity_update_version_by_id(c) ==
    /\ cons[c].pc = "u_capacity_update_version"
    /\ c_version' = [c_version EXCEPT ![c] =
          IF lock THEN c_version[c] ELSE sync_load_version_and_tail.version]
    /\ versions' = drop_versions(versions, p_version, c_version')
    /\ Returned(c)
    /\ UNCHANGED <<u_head, tail_and_version, last_version, lock, p_version,
                   p_tail, pvars, pushed, last_popped, delivered, dstq>>
    /\ BoundedUnchanged

\* consumer_capacity: update_version (its result is ignored), then the
\* capacity of the cached version.
u_capacity_update_version(c) ==
    /\ cons[c].pc = "u_capacity_update_version"
    /\ c_version' = [c_version EXCEPT ![c] = update_version(c)]
    /\ versions' = drop_versions(versions, p_version, c_version')
    /\ Returned(c)
    /\ UNCHANGED <<u_head, tail_and_version, last_version, lock, p_version,
                   p_tail, pvars, pushed, last_popped, delivered, dstq>>
    /\ BoundedUnchanged

\* consumer_len: the first sync_load_version_and_tail.
u_consumer_len(c) ==
    /\ c \in handles /\ cons[c].pc = "idle"
    /\ cons' = [cons EXCEPT ![c].pc = "u_len_load_head",
                            ![c].version = sync_load_version_and_tail.version,
                            ![c].tail = sync_load_version_and_tail.tail]
    /\ UNCHANGED <<uvars, pvars, pushed, last_popped, delivered, dstq>>
    /\ BoundedUnchanged

\* consumer_len: sync_load_version_and_tail again (after `continue`).
u_len_load_tail(c) ==
    /\ cons[c].pc = "u_len_load_tail"
    /\ cons' = [cons EXCEPT ![c].pc = "u_len_load_head",
                            ![c].version = sync_load_version_and_tail.version,
                            ![c].tail = sync_load_version_and_tail.tail]
    /\ UNCHANGED <<uvars, pvars, pushed, last_popped, delivered, dstq>>
    /\ BoundedUnchanged

\* consumer_len: the load of head; len is returned unless it is greater than
\* the cached capacity: then retry with the same version id, update_version
\* with another.
u_len_load_head(c) ==
    /\ cons[c].pc = "u_len_load_head"
    /\ IF len(u_head, cons[c].tail) > capacity(Version(c_version[c]))
       THEN IF cons[c].version = c_version[c]
            THEN cons' = [cons EXCEPT ![c] = [IdleConsumer EXCEPT
                             !.pc = "u_len_load_tail"]]
            ELSE cons' = [cons EXCEPT ![c] = [IdleConsumer EXCEPT
                             !.pc = "u_len_update_version"]]
       ELSE Returned(c)
    /\ UNCHANGED <<uvars, pvars, pushed, last_popped, delivered, dstq>>
    /\ BoundedUnchanged

\* consumer_len: update_version; 0 when it fails, else len.
u_len_update_version(c) ==
    /\ cons[c].pc = "u_len_update_version"
    /\ c_version' = [c_version EXCEPT ![c] = update_version(c)]
    /\ versions' = drop_versions(versions, p_version, c_version')
    /\ Returned(c)
    /\ UNCHANGED <<u_head, tail_and_version, last_version, lock, p_version,
                   p_tail, pvars, pushed, last_popped, delivered, dstq>>
    /\ BoundedUnchanged

\* steal_into, top of the loop with the locals h, (id, t) and the cached
\* source version: update of an older version, n = len / 2, the
\* inconsistent-view test, the threshold, n.min(dst_version.capacity()).
u_steal_top(c, h, id, t, cached) ==
    LET n == len(h, t) \div 2 IN
    IF cached < id
    THEN cons' = [cons EXCEPT ![c].head = h, ![c].version = id, ![c].tail = t,
                              ![c].pc = "u_steal_update_version"]
    ELSE IF n > capacity(Version(cached)) \div 2
    THEN cons' = [cons EXCEPT ![c] = [IdleConsumer EXCEPT
                     !.pc = "u_steal_reload_head"]]
    ELSE IF (~always_steal /\ n < StealThreshold) \/ n = 0
    THEN Returned(c)
    ELSE cons' = [cons EXCEPT ![c].head = h, ![c].version = id, ![c].tail = 0,
                              ![c].n = Min(n, InitialCapacity),
                              ![c].pc = "u_steal_copy"]

\* steal_into: load src head (dst is empty, as the debug build asserts).
u_steal_into(c) ==
    /\ c \in handles /\ cons[c].pc = "idle"
    /\ dstq[c].head = dstq[c].tail
    /\ cons' = [cons EXCEPT ![c].pc = "u_steal_load_tail", ![c].head = u_head]
    /\ UNCHANGED <<uvars, pvars, pushed, last_popped, delivered, dstq>>
    /\ BoundedUnchanged

\* steal_into on the unbounded queue called with a dst that is not empty:
\* the debug build's assert_eq!(dst_head, dst_tail) panics right after the
\* loads; the release build has no check and goes on.
u_steal_into_occupied(c) ==
    /\ c \in handles /\ cons[c].pc = "idle"
    /\ dstq[c].head # dstq[c].tail
    /\ cons' = IF debug_assertions
               THEN [cons EXCEPT ![c].pc = "panicked"]
               ELSE [cons EXCEPT ![c].pc = "u_steal_load_tail",
                                 ![c].head = u_head]
    /\ UNCHANGED <<uvars, pvars, pushed, last_popped, delivered, dstq>>
    /\ BoundedUnchanged

\* steal_into: sync_load_version_and_tail of the source.
u_steal_load_tail(c) ==
    /\ cons[c].pc = "u_steal_load_tail"
    /\ u_steal_top(c, cons[c].head, sync_load_version_and_tail.version,
                   sync_load_version_and_tail.tail, c_version[c])
    /\ UNCHANGED <<uvars, pvars, pushed, last_popped, delivered, dstq>>
    /\ BoundedUnchanged

\* steal_into: update_version; return 0 when it fails.
u_steal_update_version(c) ==
    /\ cons[c].pc = "u_steal_update_version"
    /\ c_version' = [c_version EXCEPT ![c] = update_version(c)]
    /\ versions' = drop_versions(versions, p_version, c_version')
    /\ IF lock
       THEN Returned(c)
       ELSE u_steal_top(c, cons[c].head, cons[c].version, cons[c].tail,
                        update_version(c))
    /\ UNCHANGED <<u_head, tail_and_version, last_version, lock, p_version,
                   p_tail, pvars, pushed, last_popped, delivered, dstq>>
    /\ BoundedUnchanged

\* steal_into: n > capacity / 2, src head is loaded again.
u_steal_reload_head(c) ==
    /\ cons[c].pc = "u_steal_reload_head"
    /\ cons' = [cons EXCEPT ![c].pc = "u_steal_load_tail", ![c].head = u_head]
    /\ UNCHANGED <<uvars, pvars, pushed, last_popped, delivered, dstq>>
    /\ BoundedUnchanged

\* steal_into: the two optimistic copy_slice calls into dst's buffer.
u_steal_copy(c) ==
    /\ cons[c].pc = "u_steal_copy"
    /\ LET src == Version(c_version[c])
           s == steal_slices(src.ptr, cons[c].head, cons[c].n, capacity(src))
           dst_version == alloc_new(InitialCapacity, 0)
           dst_tail == dstq[c].tail
           b1 == version_copy_slice(dstq[c].buffer, dst_tail, s.right,
                                    dst_version)
           b2 == version_copy_slice(b1, wrapping_add(dst_tail, Len(s.right)),
                                    s.left, dst_version)
       IN  dstq' = [dstq EXCEPT ![c].buffer = b2]
    /\ cons' = [cons EXCEPT ![c].pc = "u_steal_cas"]
    /\ UNCHANGED <<uvars, pvars, pushed, last_popped, delivered>>
    /\ BoundedUnchanged

\* steal_into: compare_exchange(src_head, src_head + n).
u_steal_cas(c) ==
    /\ cons[c].pc = "u_steal_cas"
    /\ IF u_head = cons[c].head
       THEN /\ u_head' = wrapping_add(cons[c].head, cons[c].n)
            /\ cons' = [cons EXCEPT ![c].pc = "u_steal_store"]
       ELSE /\ cons' = [cons EXCEPT ![c] = [IdleConsumer EXCEPT
                        !.pc = "u_steal_load_tail", !.head = u_head]]
            /\ UNCHANGED u_head
    /\ UNCHANGED <<tail_and_version, last_version, lock, versions, p_version,
                   c_version, p_tail, pvars, pushed, last_popped, delivered,
                   dstq>>
    /\ BoundedUnchanged

\* steal_into: dst.tail_and_version.store(dst_tail + n), return n.
u_steal_store(c) ==
    /\ cons[c].pc = "u_steal_store"
    /\ dstq' = [dstq EXCEPT ![c].tail = wrapping_add(dstq[c].tail, cons[c].n)]
    /\ Returned(c)
    /\ UNCHANGED <<uvars, pvars, pushed, last_popped, delivered>>
    /\ BoundedUnchanged

\* The owner of a dst queue takes everything out of it (producer_pop on dst
\* until None; nobody else touches dst, so the calls run undisturbed), drops
\* the queue and makes a new one for its next steal_into.
u_dst_pop(c) ==
    /\ cons[c].pc = "idle"
    /\ dstq[c].head # dstq[c].tail
    /\ LET dst_version == [ptr |-> dstq[c].buffer, mask |-> InitialCapacity - 1,
                           id |-> 0]
           got == version_copy_out(dst_version, dstq[c].head,
                                   len(dstq[c].head, dstq[c].tail))
       IN  delivered' = Handed(delivered, got)
    /\ dstq' = [dstq EXCEPT ![c] = [head |-> 0, tail |-> 0,
                                    buffer |-> EmptyBuffer(InitialCapacity)]]
    /\ UNCHANGED <<uvars, pvars, pushed, last_popped, cons>>
    /\ BoundedUnchanged

\* =========================================================================
\* Drop
\* =========================================================================
\* The slot contents the loop of Drop passes to drop_in_place, in its order:
\* `while head != tail`, slot head % CAPACITY. (The loop is followed for one
\* round of the buffer and one slot more: from there on it destroys slots a
\* second time, which is undefined behaviour.)
drop_in_place(buf, h, t, cap) ==
    [j \in 1..Min(len(h, t), cap + 1) |-> buf[wrapping_add(h, j - 1) % cap]]

\* Drop for SPMCBoundedQueue: the last handle is gone, no call is running
\* (a thread that panicked has dropped its handle while unwinding).
queue_drop ==
    /\ ppc \in {"idle", "panicked"}
    /\ \A c \in Consumers : cons[c].pc \in {"idle", "panicked"}
    /\ ppc' = "dropped" /\ p_head' = 0 /\ p_arg' = NoArg
    /\ p_ret' = [op |-> "drop",
                 res |-> IF len(head, tail) <= CAPACITY
                         THEN "Dropped" ELSE "Undefined",
                 vals |-> drop_in_place(buffer, head, tail, CAPACITY)]
    /\ handles' = {}
    /\ UNCHANGED <<CAPACITY, always_steal, debug_assertions, push_limit,
                   version_limit, uvars, qvars, sink, pushed, last_popped,
                   delivered, cvars>>

\* Drop for SPMCUnboundedQueue: last_version.try_read().unwrap(), then
\* `while head != tail`, slot head & mask of that version.
u_queue_drop ==
    /\ ppc \in {"idle", "panicked"} /\ ~lock
    /\ \A c \in Consumers : cons[c].pc \in {"idle", "panicked"}
    /\ ppc' = "dropped" /\ p_head' = 0 /\ p_arg' = NoArg
    /\ LET version == Version(last_version) IN
       p_ret' = [op |-> "drop",
                 res |-> IF len(u_head, unsync_load_tail) <= capacity(version)
                         THEN "Dropped" ELSE "Undefined",
                 vals |-> drop_in_place(version.ptr, u_head, unsync_load_tail,
                                        capacity(version))]
    /\ handles' = {}
    /\ UNCHANGED <<CAPACITY, always_steal, debug_assertions, push_limit,
                   version_limit, uvars, qvars, sink, pushed, last_popped,
                   delivered, cvars>>

\* ------------------------------------------------------------ specifications
Producer ==
    \/ producer_push \/ producer_maybe_push \/ push_unchecked
    \/ handle_overflow_one
    \/ producer_push_many \/ producer_maybe_push_many \/ push_many_store
    \/ handle_overflow_many
    \/ producer_pop \/ producer_pop_cas
    \/ producer_pop_many \/ producer_pop_many_cas

Consumer(c) ==
    \/ consumer_pop_many(c) \/ pop_many_load_tail(c) \/ pop_many_reload_head(c)
    \/ pop_many_copy(c) \/ pop_many_cas(c)
    \/ steal_into(c) \/ steal_load_tail(c) \/ steal_reload_head(c)
    \/ steal_copy(c) \/ steal_cas(c) \/ steal_store(c)
    \/ dst_pop(c)

\* The producer and the consumers, interleaved.
NextB == Producer \/ \E c \in Consumers : Consumer(c)
SpecB == Init /\ [][NextB]_vars

\* The producer alone (no consumer thread runs).
InitP == InitQueue(CapacitiesSeq, MaxPushSeq, {})
NextP == Producer
SpecP == InitP /\ [][NextP]_vars

\* The producer pushing one element at a time, nothing else (scenario S1).
NextS1 == producer_push \/ push_unchecked \/ handle_overflow_one
SpecS1 == InitP /\ [][NextS1]_vars

\* The unbounded queue: its producer and its consumers, interleaved.
\* Stealing without contention (scenario S2, test_spmc_bounded_stealing): the
\* producer pushes into a queue with room and pops, one consumer steals into
\* the empty dst while the producer is between calls, dst's owner pops what
\* was stolen before the producer's next call.
InitS2 == InitQueue(CapacitiesSteal, MaxPushSteal, {"c1"})
NextS2 ==
    \/ (/\ cons["c1"].pc = "idle" /\ dstq["c1"].head = dstq["c1"].tail
        /\ len(head, tail) < CAPACITY /\ producer_push)
    \/ (cons["c1"].pc = "idle" /\ push_unchecked)
    \/ (/\ cons["c1"].pc = "idle" /\ dstq["c1"].head = dstq["c1"].tail
        /\ producer_pop)
    \/ (cons["c1"].pc = "idle" /\ producer_pop_cas)
    \/ (ppc = "idle" /\ steal_into("c1"))
    \/ steal_load_tail("c1") \/ steal_copy("c1") \/ steal_cas("c1")
    \/ steal_store("c1")
    \/ (ppc = "idle" /\ dst_pop("c1"))
SpecS2 == InitS2 /\ [][NextS2]_vars

UProducer ==
    \/ u_producer_push \/ u_push_unchecked
    \/ u_producer_push_many \/ u_push_many_store
    \/ u_producer_reserve
    \/ u_handle_overflow \/ u_write_last_version \/ u_store_tail_and_version
    \/ u_producer_pop \/ u_producer_pop_cas
    \/ u_producer_pop_many \/ u_producer_pop_many_cas

UConsumer(c) ==
    \/ u_consumer_pop_many(c) \/ u_pop_load_tail(c) \/ u_pop_update_version(c)
    \/ u_pop_reload_head(c) \/ u_pop_copy(c) \/ u_pop_cas(c)
    \/ u_steal_into(c) \/ u_steal_load_tail(c) \/ u_steal_update_version(c)
    \/ u_steal_reload_head(c) \/ u_steal_copy(c) \/ u_steal_cas(c)
    \/ u_steal_store(c)
    \/ u_dst_pop(c)

NextU == UProducer \/ \E c \in Consumers : UConsumer(c)
SpecU == InitU /\ [][NextU]_vars

\* Stealing from the unbounded queue with and without the always_steal
\* feature (test_spmc_unbounded_stealing): the producer pushes and grows the
\* queue once, one consumer steals concurrently, dst's owner pops. (Nothing
\* but this consumer moves head, so its view of head is never behind and the
\* inconsistent-view branch is not taken.)
InitUThreshold ==
    /\ InitThreads(MaxPushThreshold, {"c1"}, InitialCapacity)
    /\ version_limit = 1
    /\ always_steal \in BOOLEAN
    /\ debug_assertions = TRUE
    /\ CAPACITY = 0 /\ head = 0 /\ tail = 0 /\ buffer = EmptyBuffer(0)
    /\ sink = <<>>
    /\ u_head = 0 /\ tail_and_version = pack_version_and_tail(0, 0)
    /\ versions = <<alloc_new(InitialCapacity, 0)>>
    /\ last_version = 0 /\ lock = FALSE
    /\ p_version = 0 /\ c_version = [c \in Consumers |-> 0] /\ p_tail = 0

\* The steal threshold in both variants: the bounded runs of scenario S2 and
\* the unbounded runs above.
InitThreshold == InitS2 \/ InitUThreshold
NextThreshold ==
    \/ (CAPACITY # 0 /\ NextS2)
    \/ (CAPACITY = 0 /\ u_producer_push)
    \/ (CAPACITY = 0 /\ u_push_unchecked)
    \/ (CAPACITY = 0 /\ u_handle_overflow)
    \/ (CAPACITY = 0 /\ u_write_last_version)
    \/ (CAPACITY = 0 /\ u_store_tail_and_version)
    \/ (CAPACITY = 0 /\ u_steal_into("c1"))
    \/ (CAPACITY = 0 /\ u_steal_load_tail("c1"))
    \/ (CAPACITY = 0 /\ u_steal_update_version("c1"))
    \/ (CAPACITY = 0 /\ u_steal_copy("c1"))
    \/ (CAPACITY = 0 /\ u_steal_cas("c1"))
    \/ (CAPACITY = 0 /\ u_steal_store("c1"))
    \/ (CAPACITY = 0 /\ u_dst_pop("c1"))
SpecThreshold == InitThreshold /\ [][NextThreshold]_vars

\* steal_into with any dst, empty or not: the producer pushes, one consumer
\* steals into a dst its owner pops from now and then; bounded queues of both
\* builds and the unbounded queue of both builds. (Nothing but the consumer
\* moves the unbounded head, so its inconsistent-view branch is not taken.)
InitUOccupied ==
    /\ InitThreads(MaxPushUOne, {"c1"}, InitialCapacity)
    /\ version_limit = 1
    /\ always_steal = TRUE
    /\ debug_assertions \in BOOLEAN
    /\ CAPACITY = 0 /\ head = 0 /\ tail = 0 /\ buffer = EmptyBuffer(0)
    /\ sink = <<>>
    /\ u_head = 0 /\ tail_and_version = pack_version_and_tail(0, 0)
    /\ versions = <<alloc_new(InitialCapacity, 0)>>
    /\ last_version = 0 /\ lock = FALSE
    /\ p_version = 0 /\ c_version = [c \in Consumers |-> 0] /\ p_tail = 0

InitOccupied == InitQueue(CapacitiesOne, MaxPushOne, {"c1"}) \/ InitUOccupied
NextOccupied ==
    \/ (CAPACITY # 0 /\ producer_push)
    \/ (CAPACITY # 0 /\ push_unchecked)
    \/ (CAPACITY # 0 /\ handle_overflow_one)
    \/ (CAPACITY # 0 /\ steal_into("c1"))
    \/ (CAPACITY # 0 /\ steal_into_occupied("c1"))
    \/ (CAPACITY # 0 /\ steal_load_tail("c1"))
    \/ (CAPACITY # 0 /\ steal_reload_head("c1"))
    \/ (CAPACITY # 0 /\ steal_copy("c1"))
    \/ (CAPACITY # 0 /\ steal_cas("c1"))
    \/ (CAPACITY # 0 /\ steal_store("c1"))
    \/ (CAPACITY # 0 /\ dst_pop("c1"))
    \/ (CAPACITY = 0 /\ u_producer_push)
    \/ (CAPACITY = 0 /\ u_push_unchecked)
    \/ (CAPACITY = 0 /\ u_handle_overflow)
    \/ (CAPACITY = 0 /\ u_write_last_version)
    \/ (CAPACITY = 0 /\ u_store_tail_and_version)
    \/ (CAPACITY = 0 /\ u_steal_into("c1"))
    \/ (CAPACITY = 0 /\ u_steal_into_occupied("c1"))
    \/ (CAPACITY = 0 /\ u_steal_load_tail("c1"))
    \/ (CAPACITY = 0 /\ u_steal_update_version("c1"))
    \/ (CAPACITY = 0 /\ u_steal_copy("c1"))
    \/ (CAPACITY = 0 /\ u_steal_cas("c1"))
    \/ (CAPACITY = 0 /\ u_steal_store("c1"))
    \/ (CAPACITY = 0 /\ u_dst_pop("c1"))
SpecOccupied == InitOccupied /\ [][NextOccupied]_vars

\* The producer of the unbounded queue alone, pushing in its four ways and
\* popping (scenario S4, test_spmc_unbounded_seq_insertions).
InitUSeq == InitUnbounded(MaxPushUSeq, MaxVersionIdOne, {})
NextUSeq ==
    \/ u_producer_push \/ u_producer_maybe_push \/ u_push_unchecked
    \/ u_producer_push_many \/ u_producer_maybe_push_many \/ u_push_many_store
    \/ u_handle_overflow \/ u_write_last_version \/ u_store_tail_and_version
    \/ u_producer_pop \/ u_producer_pop_cas
SpecUSeq == InitUSeq /\ [][NextUSeq]_vars

\* One consumer handle of the unbounded queue using all of its operations
\* (capacity, len, pop_many, steal_into) while the producer pushes, pops and
\* grows the queue, and in runs with more elements in which it does not grow.
InitUHandle ==
    \/ InitUnbounded(MaxPushUHandle, MaxVersionIdOne, {"c1"})
    \/ InitUnbounded(MaxPushUNoGrow, 0, {"c1"})
NextUHandle ==
    \/ UProducer
    \/ UConsumer("c1")
    \/ u_consumer_capacity("c1") \/ u_capacity_update_version("c1")
    \/ u_consumer_len("c1") \/ u_len_load_tail("c1") \/ u_len_load_head("c1")
    \/ u_len_update_version("c1")
SpecUHandle == InitUHandle /\ [][NextUHandle]_vars

\* A queue of either kind used by its producer and one consumer handle and
\* dropped when no call is running.
InitDrop ==
    \/ InitQueue(CapacitiesOne, MaxPushOne, {"c1"})
    \/ InitUnbounded(MaxPushUHandle, MaxVersionIdOne, {"c1"})
    \/ InitUnbounded(MaxPushUNoGrow, 0, {"c1"})
NextDrop ==
    \/ (CAPACITY # 0 /\ producer_push)
    \/ (CAPACITY # 0 /\ producer_maybe_push)
    \/ (CAPACITY # 0 /\ push_unchecked)
    \/ (CAPACITY # 0 /\ handle_overflow_one)
    \/ (CAPACITY # 0 /\ producer_push_many)
    \/ (CAPACITY # 0 /\ producer_maybe_push_many)
    \/ (CAPACITY # 0 /\ push_many_store)
    \/ (CAPACITY # 0 /\ handle_overflow_many)
    \/ (CAPACITY # 0 /\ producer_pop)
    \/ (CAPACITY # 0 /\ producer_pop_cas)
    \/ (CAPACITY # 0 /\ producer_pop_many)
    \/ (CAPACITY # 0 /\ producer_pop_many_cas)
    \/ (CAPACITY # 0 /\ consumer_pop_many("c1"))
    \/ (CAPACITY # 0 /\ pop_many_load_tail("c1"))
    \/ (CAPACITY # 0 /\ pop_many_reload_head("c1"))
    \/ (CAPACITY # 0 /\ pop_many_copy("c1"))
    \/ (CAPACITY # 0 /\ pop_many_cas("c1"))
    \/ (CAPACITY # 0 /\ steal_into("c1"))
    \/ (CAPACITY # 0 /\ steal_load_tail("c1"))
    \/ (CAPACITY # 0 /\ steal_reload_head("c1"))
    \/ (CAPACITY # 0 /\ steal_copy("c1"))
    \/ (CAPACITY # 0 /\ steal_cas("c1"))
    \/ (CAPACITY # 0 /\ steal_store("c1"))
    \/ (CAPACITY # 0 /\ dst_pop("c1"))
    \/ (CAPACITY # 0 /\ queue_drop)
    \/ (CAPACITY = 0 /\ u_producer_push)
    \/ (CAPACITY = 0 /\ u_push_unchecked)
    \/ (CAPACITY = 0 /\ u_producer_push_many)
    \/ (CAPACITY = 0 /\ u_push_many_store)
    \/ (CAPACITY = 0 /\ u_producer_reserve)
    \/ (CAPACITY = 0 /\ u_handle_overflow)
    \/ (CAPACITY = 0 /\ u_write_last_version)
    \/ (CAPACITY = 0 /\ u_store_tail_and_version)
    \/ (CAPACITY = 0 /\ u_producer_pop)
    \/ (CAPACITY = 0 /\ u_producer_pop_cas)
    \/ (CAPACITY = 0 /\ u_producer_pop_many)
    \/ (CAPACITY = 0 /\ u_producer_pop_many_cas)
    \/ (CAPACITY = 0 /\ u_consumer_pop_many("c1"))
    \/ (CAPACITY = 0 /\ u_pop_load_tail("c1"))
    \/ (CAPACITY = 0 /\ u_pop_update_version("c1"))
    \/ (CAPACITY = 0 /\ u_pop_reload_head("c1"))
    \/ (CAPACITY = 0 /\ u_pop_copy("c1"))
    \/ (CAPACITY = 0 /\ u_pop_cas("c1"))
    \/ (CAPACITY = 0 /\ u_steal_into("c1"))
    \/ (CAPACITY = 0 /\ u_steal_load_tail("c1"))
    \/ (CAPACITY = 0 /\ u_steal_update_version("c1"))
    \/ (CAPACITY = 0 /\ u_steal_reload_head("c1"))
    \/ (CAPACITY = 0 /\ u_steal_copy("c1"))
    \/ (CAPACITY = 0 /\ u_steal_cas("c1"))
    \/ (CAPACITY = 0 /\ u_steal_store("c1"))
    \/ (CAPACITY = 0 /\ u_dst_pop("c1"))
    \/ (CAPACITY = 0 /\ u_queue_drop)
SpecDrop == InitDrop /\ [][NextDrop]_vars

\* push_many_unchecked on either queue: the producer pushes pairs of slices
\* and pops, one consumer handle pops batches concurrently. (No operation of
\* these runs grows the unbounded queue.)
NextUnchecked ==
    \/ (CAPACITY # 0 /\ producer_push_many_unchecked)
    \/ (CAPACITY # 0 /\ producer_pop)
    \/ (CAPACITY # 0 /\ producer_pop_cas)
    \/ (CAPACITY # 0 /\ consumer_pop_many("c1"))
    \/ (CAPACITY # 0 /\ pop_many_load_tail("c1"))
    \/ (CAPACITY # 0 /\ pop_many_reload_head("c1"))
    \/ (CAPACITY # 0 /\ pop_many_copy("c1"))
    \/ (CAPACITY # 0 /\ pop_many_cas("c1"))
    \/ (CAPACITY = 0 /\ u_producer_push_many_unchecked)
    \/ (CAPACITY = 0 /\ u_producer_pop)
    \/ (CAPACITY = 0 /\ u_producer_pop_cas)
    \/ (CAPACITY = 0 /\ u_consumer_pop_many("c1"))
    \/ (CAPACITY = 0 /\ u_pop_load_tail("c1"))
    \/ (CAPACITY = 0 /\ u_pop_reload_head("c1"))
    \/ (CAPACITY = 0 /\ u_pop_copy("c1"))
    \/ (CAPACITY = 0 /\ u_pop_cas("c1"))
SpecUnchecked == InitOccupied /\ [][NextUnchecked]_vars

\* test_spmc_unbounded_stealing: one thread at a time. The producer pushes
\* and pops while no steal runs; the consumer steals into its empty dst while
\* the producer is between calls, and dst's owner drains dst.
NextUStealing ==
    \/ (cons["c1"].pc = "idle" /\ u_producer_push)
    \/ u_push_unchecked
    \/ u_handle_overflow
    \/ u_write_last_version
    \/ u_store_tail_and_version
    \/ (cons["c1"].pc = "idle" /\ u_producer_pop)
    \/ u_producer_pop_cas
    \/ (ppc = "idle" /\ u_steal_into("c1"))
    \/ u_steal_load_tail("c1")
    \/ u_steal_update_version("c1")
    \/ u_steal_copy("c1")
    \/ u_steal_cas("c1")
    \/ u_steal_store("c1")
    \/ (ppc = "idle" /\ u_dst_pop("c1"))
SpecUStealing ==
    InitUnbounded(MaxPushUSteal, MaxVersionIdOne, {"c1"})
    /\ [][NextUStealing]_vars

\* ------------------------------------------------------------- observations
\* No call is running.
AllIdle == ppc = "idle" /\ \A c \in Consumers : cons[c].pc = "idle"

\* How often v occurs in the sequence s.
Occurrences(s, v) == Cardinality({j \in DOMAIN s : s[j] = v})

Range(s) == {s[j] : j \in DOMAIN s}

\* The elements of the logical range [h, t) of a ring of CAPACITY slots,
\* oldest first (slot(i) = i mod CAPACITY); nothing when len is out of range.
LiveSeq(h, t, buf) ==
    IF len(h, t) <= CAPACITY
    THEN [j \in 1..len(h, t) |-> buf[(h + j - 1) % CAPACITY]]
    ELSE <<>>

Queue == LiveSeq(head, tail, buffer)
DstQueue(c) == LiveSeq(dstq[c].head, dstq[c].tail, dstq[c].buffer)

\* The elements of the logical range [h, t) of a version's buffer, oldest
\* first (slot(i) = i & mask).
VersionSeq(h, t, version) ==
    [j \in 1..len(h, t) |-> version.ptr[BitAnd(h + j - 1, version.mask)]]

\* The unbounded queue: [head, tail) in the version tail_and_version names.
UQueue ==
    VersionSeq(u_head, sync_load_version_and_tail.tail,
               Version(sync_load_version_and_tail.version))
UDstQueue(c) ==
    VersionSeq(dstq[c].head, dstq[c].tail,
               [ptr |-> dstq[c].buffer, mask |-> InitialCapacity - 1, id |-> 0])

\* In how many places element v of the unbounded queue is: the queue, a
\* caller's hands, a dst queue.
UCopies(v) ==
    Occurrences(UQueue, v) + delivered[v]
    + Cardinality({<<c, j>> \in Consumers \X (1..InitialCapacity) :
                     j <= Len(UDstQueue(c)) /\ UDstQueue(c)[j] = v})

\* In how many places element v is: the queue, a caller's hands, a dst queue,
\* the sink.
Copies(v) ==
    Occurrences(Queue, v) + delivered[v] + Occurrences(sink, v)
    + Cardinality({<<c, j>> \in Consumers \X (1..CAPACITY) :
                     j <= Len(DstQueue(c)) /\ DstQueue(c)[j] = v})

\* s holds elements the producer created, each later in push order than the
\* one before it.
InPushOrder(s) ==
    \A j \in DOMAIN s :
        /\ s[j] >= 1 /\ s[j] <= pushed
        /\ j > 1 => s[j] > s[j - 1]

\* The producer is in the overflow protocol and this step spills.
Spills == ppc \in {"handle_overflow_one", "handle_overflow_many"} /\ sink' # sink

\* ------------------------------------------------------------------- claims
\* C1: bounded queue, no double delivery / conservation. Whenever no call is
\* running, every element the producer created and the queue accepted is in
\* exactly one place (still in the queue, handed to a caller by a pop, in a
\* dst queue after steal_into, or in the sink), and nothing that is not an
\* element was handed out or spilled.
C1_NoDoubleDelivery ==
    AllIdle =>
        /\ \A v \in 1..pushed : Copies(v) = 1
        /\ delivered[Uninit] = 0
        /\ Occurrences(sink, Uninit) = 0

\* What the step that moves the unbounded head from h by n hands to its
\* caller is batch: the producer's pop or pop_many result, the dst of the
\* consumer's pop_many, the slots steal_into filled in its dst queue.
UClaimReturns(h, n, batch) ==
    /\ ppc' # ppc => p_ret'.vals = batch
    /\ \A c \in Consumers :
          cons'[c] # cons[c] =>
             IF cons[c].pc = "u_pop_cas"
             THEN cons[c].dst = batch
             ELSE VersionSeq(dstq[c].tail, wrapping_add(dstq[c].tail, n),
                             [ptr |-> dstq[c].buffer,
                              mask |-> InitialCapacity - 1, id |-> 0]) = batch

\* Whenever no call is running, every element pushed is in exactly one place
\* and nothing that is not an element was handed out.
UConservation ==
    AllIdle => /\ \A v \in 1..pushed : UCopies(v) = 1
               /\ delivered[Uninit] = 0

\* C2: unbounded queue, no double delivery. Every step that moves head from h
\* to h + n (a successful claim of the producer's pop or pop_many, of a
\* consumer's pop_many or steal_into) has n >= 1 and hands its caller exactly
\* the elements pushed at positions h .. h + n - 1 (elements h + 1 .. h + n in
\* creation order), whichever version the claimer had cached and whichever
\* version id it had loaded; and whenever no call is running afterwards, every
\* element pushed is in exactly one place.
C2_NoDoubleDeliveryUnbounded ==
    [][/\ u_head' # u_head =>
            LET n == wrapping_sub(u_head', u_head) IN
            /\ n >= 1 /\ n <= pushed
            /\ UClaimReturns(u_head, n, [j \in 1..n |-> u_head + j])
       /\ UConservation']_vars

\* A consumer whose cached version is newer than the version id it loaded is
\* about to claim successfully, after earlier claims.
C2_Witness ==
    \E c \in handles :
        /\ cons[c].pc = "u_pop_cas"
        /\ c_version[c] > cons[c].version
        /\ u_head = cons[c].head /\ u_head > 0
        /\ cons[c].n >= 1

\* C3: bounded length invariant: (tail - head) mod 2^W lies in [0, CAPACITY]
\* in every reachable state.
C3_LenInvariant == len(head, tail) <= CAPACITY

\* A thread stands before a compare-exchange of head that expects h and
\* claims n elements.
ClaimAt(h, n) ==
    \/ ppc = "producer_pop_cas" /\ p_head = h /\ n = 1
    \/ ppc = "producer_pop_many_cas" /\ p_head = h
          /\ n = Min(p_arg.n, len(p_head, tail))
    \/ ppc \in {"handle_overflow_one", "handle_overflow_many"} /\ p_head = h
          /\ n = NUM_VALUES_TAKEN(CAPACITY)
    \/ \E c \in Consumers :
          cons[c].pc \in {"pop_many_cas", "steal_cas"}
          /\ cons[c].head = h /\ cons[c].n = n

\* C4: exclusive claims. Every step that moves head is the compare-exchange
\* of a thread that expected the current head, and it moves head forward by
\* the n >= 1 that thread claims: the claimed logical ranges [h, h+n) follow
\* one another without gap or overlap, in the order of the successful CASes.
C4_ExclusiveClaims ==
    [][head' # head =>
         LET n == wrapping_sub(head', head) IN
         n >= 1 /\ n <= CAPACITY + MaxSlice /\ ClaimAt(head, n)]_vars

\* Two threads stood before a compare-exchange with the same expected head,
\* one of them won, the other now expects a head that is gone.
C4_Witness ==
    /\ head > 0
    /\ \E c \in Consumers :
          cons[c].pc \in {"pop_many_cas", "steal_cas"} /\ cons[c].head # head
    /\ \E v \in 1..MaxPushOne : v <= pushed /\ delivered[v] = 1

\* C5: order within a claim (the part of it that holds for every queue that
\* never spilled a payload in between): the batch a successful pop_many or
\* steal_into hands over consists of elements in push order, and a producer
\* pop returns an element later in push order than the pop before it.
C5_BatchInPushOrder ==
    [][/\ \A c \in Consumers :
            /\ (cons[c].pc = "pop_many_cas" /\ cons'[c].pc = "idle")
                  => InPushOrder(cons[c].dst)
            /\ (cons[c].pc = "steal_store" /\ cons'[c].pc = "idle")
                  => InPushOrder(
                        [j \in 1..cons[c].n |->
                            dstq[c].buffer[(dstq[c].tail + j - 1) % CAPACITY]])
       /\ (ppc = "producer_pop_many_cas" /\ ppc' = "idle")
             => InPushOrder(p_ret'.vals)
       /\ (ppc = "producer_pop_cas" /\ p_ret'.res = "Some")
             => (InPushOrder(p_ret'.vals) /\ p_ret'.vals[1] > last_popped)]_vars

\* C6: sink FIFO order on overflow: a push or push_many that spills from a
\* full queue appends to the sink the K = CAPACITY / 2 oldest elements of the
\* queue, oldest first, and then the payload.
C6_SinkFIFO ==
    [][(Spills /\ len(head, tail) = CAPACITY) =>
         sink' = sink \o SubSeq(Queue, 1, NUM_VALUES_TAKEN(CAPACITY))
                      \o Payload(p_arg.v, p_arg.n)]_vars

\* C7: spill amount: a push or push_many on a full queue, undisturbed by
\* consumers, makes the sink grow by CAPACITY / 2 + |payload|, leaves
\* CAPACITY - CAPACITY / 2 elements in the queue and writes no slot.
C7_SpillAmount ==
    [][(Spills /\ len(head, tail) = CAPACITY) =>
         /\ Len(sink') = Len(sink) + NUM_VALUES_TAKEN(CAPACITY) + p_arg.n
         /\ len(head', tail') = CAPACITY - NUM_VALUES_TAKEN(CAPACITY)
         /\ buffer' = buffer]_vars

C9_SpillsOnlyLive ==
    [][(ppc = "handle_overflow_many" /\ sink' # sink) =>
         LET handed == SubSeq(sink', Len(sink) + 1, Len(sink') - p_arg.n) IN
         /\ Len(handed) <= len(head, tail)
         /\ Range(handed) \subseteq Range(Queue)]_vars

\* C10: bounded maybe_push: on a full queue it returns Err with the value it
\* was given and changes neither head nor tail nor a slot nor the sink; else
\* it stores the value at slot(tail), adds 1 to tail and returns Ok.
C10_MaybePush ==
    [][/\ (ppc = "idle" /\ pvars' # pvars
           /\ (p_arg'.op = "maybe_push" \/ p_ret'.op = "maybe_push"))
            => IF len(head, tail) = CAPACITY
               THEN /\ p_ret' = [op |-> "maybe_push", res |-> "Err",
                                 vals |-> <<pushed + 1>>]
                    /\ ppc' = "idle"
                    /\ UNCHANGED <<head, tail, buffer, sink, pushed>>
               ELSE /\ ppc' = "push_unchecked" /\ p_arg'.v = pushed + 1
                    /\ UNCHANGED <<head, tail, buffer, sink>>
       /\ (ppc = "push_unchecked" /\ pvars' # pvars /\ p_arg.op = "maybe_push")
            => /\ buffer' = [buffer EXCEPT ![tail % CAPACITY] = p_arg.v]
               /\ tail' = wrapping_add(tail, 1)
               /\ p_ret'.res = "Ok" /\ ppc' = "idle"
               /\ UNCHANGED <<head, sink>>]_vars

\* maybe_push has just refused an element on a full queue that consumers
\* had been taking from.
C10_Witness ==
    /\ p_ret.op = "maybe_push" /\ p_ret.res = "Err"
    /\ len(head, tail) = CAPACITY
    /\ head > 0

\* The bounded queue of three slots with one consumer and pushes enough for a
\* push_many, a push and a maybe_push_many after it.
InitMaybeMany == InitQueue({3}, MaxPushMaybeMany, {"c1"})
SpecMaybeMany == InitMaybeMany /\ [][NextB]_vars

\* C11: bounded maybe_push_many is all-or-nothing. A call with a slice that
\* does not fit (len + |s| > CAPACITY) returns Err and changes neither head
\* nor tail nor a slot nor the sink; a call with a slice that fits returns Ok
\* after one copy that leaves the queue holding what it held followed by the
\* whole slice in order, with tail increased by |s|.
\* (Holds in the debug build; in the release build a push_many that moved
\* head past tail leaves a queue whose later maybe_push_many returns Ok for an
\* element a stale consumer's compare-exchange then puts outside [head, tail).)
C11_MaybePushManyAllOrNothing ==
    [][/\ (ppc = "idle" /\ pvars' # pvars
           /\ (p_arg'.op = "maybe_push_many" \/ p_ret'.op = "maybe_push_many"))
            => IF ppc' = "idle"
               THEN /\ p_ret'.res = "Err"
                    /\ len(head, tail) + Len(p_ret'.vals) > CAPACITY
                    /\ p_ret'.vals = Payload(pushed + 1, Len(p_ret'.vals))
                    /\ UNCHANGED <<head, tail, buffer, sink, pushed>>
               ELSE /\ ppc' = "push_many_store"
                    /\ len(head, tail) + p_arg'.n <= CAPACITY
                    /\ p_arg'.v = pushed + 1 /\ pushed' = pushed + p_arg'.n
                    /\ UNCHANGED <<head, tail, buffer, sink>>
       /\ (ppc = "push_many_store" /\ p_arg.op = "maybe_push_many"
           /\ pvars' # pvars)
            => /\ p_ret' = [op |-> "maybe_push_many", res |-> "Ok",
                            vals |-> <<>>]
               /\ tail' = wrapping_add(tail, p_arg.n)
               /\ len(head, tail') <= CAPACITY
               /\ LiveSeq(head, tail', buffer')
                    = LiveSeq(head, tail, buffer) \o Payload(p_arg.v, p_arg.n)
               /\ UNCHANGED <<head, sink>>]_vars

\* C12: bounded steal_into without contention. With dst empty and src holding
\* L elements, floor(L/2) >= 4, the call takes n = floor(L/2) and returns it
\* (dst.tail grows by n); dst then holds exactly the n oldest elements of src
\* in push order and src the remaining L - n in push order, and the pops of
\* dst's owner and of the producer take them from the front, one by one.
C12_UncontendedSteal ==
    [][/\ (cons["c1"].pc = "steal_load_tail" /\ cons' # cons
           /\ len(head, tail) \div 2 >= StealThreshold)
            => /\ cons["c1"].head = head
               /\ cons'["c1"].pc = "steal_copy"
               /\ cons'["c1"].n = len(head, tail) \div 2
       /\ (cons["c1"].pc = "steal_store" /\ cons' # cons
           /\ cons["c1"].n >= StealThreshold)
            => LET n == cons["c1"].n
                   src == LiveSeq(wrapping_sub(head, n), tail, buffer)
               IN  /\ n = Len(src) \div 2
                   /\ InPushOrder(src)
                   /\ dstq'["c1"].tail = wrapping_add(dstq["c1"].tail, n)
                   /\ DstQueue("c1")' = SubSeq(src, 1, n)
                   /\ Queue' = SubSeq(src, n + 1, Len(src))
                   /\ Len(Queue') = Len(src) - n
       /\ (dstq'["c1"].head # dstq["c1"].head)
            => /\ DstQueue("c1") # <<>>
               /\ delivered' = Handed(delivered, <<Head(DstQueue("c1"))>>)
               /\ DstQueue("c1")' = Tail(DstQueue("c1"))
       /\ (p_ret' # p_ret /\ p_ret'.op = "pop")
            => IF Queue = <<>>
               THEN p_ret'.res = "None" /\ Queue' = <<>>
               ELSE /\ p_ret'.res = "Some"
                    /\ p_ret'.vals = <<Head(Queue)>>
                    /\ Queue' = Tail(Queue)]_vars

\* An uncontended steal_into of at least four elements returned, and the
\* range it took wrapped around the end of src's buffer.
C12_Witness ==
    /\ AllIdle
    /\ Len(DstQueue("c1")) >= StealThreshold
    /\ dstq["c1"].head > 0
    /\ head % CAPACITY \in 1..(Len(DstQueue("c1")) - 1)
    /\ Queue # <<>>
    /\ DstQueue("c1")[1] + Len(DstQueue("c1")) = Queue[1]

\* C13: the steal threshold, in both variants. When steal_into has a
\* consistent view (and, in the unbounded variant, a current version) and
\* n = floor(len/2): without always_steal, n < 4 makes it return 0 with
\* src.head and dst.tail unchanged; with always_steal only n = 0 does; in
\* every other case it goes on to steal n elements (the unbounded variant at
\* most dst's capacity).
C13_StealThreshold ==
    [][/\ (CAPACITY # 0 /\ cons["c1"].pc = "steal_load_tail" /\ cons' # cons)
            => LET n == len(cons["c1"].head, tail) \div 2 IN
               n <= CAPACITY \div 2
                => IF (~always_steal /\ n < 4) \/ (always_steal /\ n = 0)
                   THEN /\ cons'["c1"].pc = "idle"
                        /\ UNCHANGED <<head, dstq>>
                   ELSE /\ cons'["c1"].pc = "steal_copy"
                        /\ cons'["c1"].n = n
       /\ (/\ CAPACITY = 0 /\ cons' # cons
           /\ cons["c1"].pc \in {"u_steal_load_tail", "u_steal_update_version"})
            => LET loaded == sync_load_version_and_tail
                   first == cons["c1"].pc = "u_steal_load_tail"
                   id == IF first THEN loaded.version ELSE cons["c1"].version
                   t == IF first THEN loaded.tail ELSE cons["c1"].tail
                   n == len(cons["c1"].head, t) \div 2
               IN  (c_version'["c1"] >= id
                    /\ n <= capacity(Version(c_version'["c1"])) \div 2)
                    => IF (~always_steal /\ n < 4) \/ (always_steal /\ n = 0)
                       THEN /\ cons'["c1"].pc = "idle"
                            /\ UNCHANGED <<u_head, dstq>>
                       ELSE /\ cons'["c1"].pc = "u_steal_copy"
                            /\ cons'["c1"].n = Min(n, InitialCapacity)]_vars

\* Without always_steal, a steal_into on the unbounded queue is about to
\* decline (0 < floor(len/2) < 4, version current) after an earlier call of
\* the same run has stolen.
C13_Witness ==
    /\ CAPACITY = 0 /\ ~always_steal
    /\ cons["c1"].pc = "u_steal_load_tail"
    /\ c_version["c1"] = sync_load_version_and_tail.version
    /\ len(cons["c1"].head, sync_load_version_and_tail.tail) \div 2 \in 1..3
    /\ u_head >= StealThreshold

\* C14: the steal precondition. In the debug build a steal_into call whose
\* dst is not empty (dst.head != dst.tail) panics before it changes src.head,
\* dst.tail or a dst slot, in both variants, and the panicked call never
\* resumes (dst stays as it was).
C14_StealPrecondition ==
    [][/\ (/\ debug_assertions
           /\ cons["c1"].pc = "idle" /\ cons'["c1"].pc # "idle"
           /\ dstq["c1"].head # dstq["c1"].tail)
            => /\ cons'["c1"].pc = "panicked"
               /\ UNCHANGED <<head, u_head, dstq>>
       /\ cons["c1"].pc = "panicked"
            => UNCHANGED <<cons, dstq>>]_vars

\* A debug build's steal_into has panicked on a dst that still holds what an
\* earlier call stole, with elements in src it could have taken.
C14_Witness ==
    /\ debug_assertions
    /\ cons["c1"].pc = "panicked"
    /\ dstq["c1"].head # dstq["c1"].tail
    /\ CAPACITY # 0 /\ len(head, tail) >= 2

\* C15: pushing into the unbounded queue never fails and never uses the
\* sink. Whatever the producer calls (push, push_many, maybe_push,
\* maybe_push_many, pop), maybe_push and maybe_push_many return Ok, the sink
\* stays empty, and between calls the queue holds every pushed element that
\* was not popped, in push order, so that pops yield them in that order.
C15_UnboundedPushNeverFails ==
    [][/\ (p_ret' # p_ret /\ p_ret'.op \in {"maybe_push", "maybe_push_many"})
            => p_ret'.res = "Ok"
       /\ (ppc = "idle" /\ p_arg'.op \in {"maybe_push", "maybe_push_many"})
            => pushed' = pushed + p_arg'.n
       /\ sink' = <<>>
       /\ ppc' = "idle"
            => UQueue' = [j \in 1..(pushed' - u_head') |-> u_head' + j]
       /\ (p_ret' # p_ret /\ p_ret'.op = "pop")
            => IF UQueue = <<>>
               THEN p_ret'.res = "None"
               ELSE p_ret'.res = "Some" /\ p_ret'.vals = <<Head(UQueue)>>]_vars

\* maybe_push_many has returned Ok after the queue grew twice and the
\* producer popped; more elements are queued than the first two capacities
\* hold.
C15_Witness ==
    /\ ppc = "idle"
    /\ p_ret = [op |-> "maybe_push_many", res |-> "Ok", vals |-> <<>>]
    /\ p_version = 2 /\ u_head >= 1
    /\ Len(UQueue) > 2 * InitialCapacity
    /\ sink = <<>>

\* x is a power of two.
IsPowerOfTwo(x) == \E k \in 0..15 : x = 2 ^ k

\* C16: capacity growth. The unbounded producer enters handle_overflow
\* exactly when push finds len == capacity or push_many finds
\* len + |s| > capacity, and the version handle_overflow allocates has a
\* capacity that is a power of two, at least twice the old capacity and at
\* least old_len + |s| + 1.
C16_CapacityGrowth ==
    [][/\ (ppc = "idle" /\ p_arg'.op \in {"push", "maybe_push"})
            => (ppc' = "u_handle_overflow"
                  <=> len(u_head, unsync_load_tail)
                        = capacity(Version(p_version)))
       /\ (ppc = "idle" /\ p_arg'.op \in {"push_many", "maybe_push_many"})
            => (ppc' = "u_handle_overflow"
                  <=> len(u_head, unsync_load_tail) + p_arg'.n
                        > capacity(Version(p_version)))
       /\ (ppc = "u_handle_overflow" /\ ppc' # ppc /\ p_arg.op # "reserve")
            => LET old_capacity == capacity(Version(p_version))
                   new_capacity == capacity(versions'[Len(versions')])
                   old_len == len(p_head, unsync_load_tail)
               IN  /\ Len(versions') = Len(versions) + 1
                   /\ IsPowerOfTwo(new_capacity)
                   /\ new_capacity >= 2 * old_capacity
                   /\ new_capacity >= old_len + p_arg.n + 1]_vars

\* A push_many overflowed a queue of capacity 4 with a slice that does not
\* fit into twice that capacity next to the queued elements: the new version
\* has four times the capacity and holds all of them.
C16_Witness ==
    /\ ppc = "idle" /\ p_version = 1
    /\ capacity(Version(0)) = InitialCapacity
    /\ capacity(Version(1)) = 4 * InitialCapacity
    /\ Len(UQueue) > 2 * InitialCapacity

\* C17: version monotonicity. The id of the version a consumer handle of the
\* unbounded queue has cached never decreases, whatever the handle calls
\* (capacity, len, pop_many, steal_into) and however the producer's growths
\* interleave with it.
C17_VersionMonotonic ==
    [][\A c \in Consumers : c_version'[c] >= c_version[c]]_vars

\* The handle has cached version 2 while the packed word still names
\* version 1, and its capacity call is about to update the version again.
C17_Witness ==
    /\ c_version["c1"] = 2
    /\ sync_load_version_and_tail.version = 1
    /\ cons["c1"].pc = "u_capacity_update_version"
    /\ ~lock

\* C18: an unbounded consumer gives up cleanly on lock contention. When
\* pop_many or steal_into has to refresh its cached version (cached id <
\* loaded id) and try_read of the latest version fails, the call returns
\* with nothing taken: head, the packed tail-and-version word, the cached
\* version and dst (its tail included) are unchanged.
C18_GivesUpOnContention ==
    [][\A c \in Consumers :
        (/\ cons[c].pc \in {"u_pop_update_version", "u_steal_update_version"}
         /\ cons'[c] # cons[c])
            => /\ c_version[c] < cons[c].version
               /\ lock => /\ cons'[c] = IdleConsumer
                          /\ UNCHANGED <<u_head, tail_and_version, c_version,
                                         dstq, delivered>>]_vars

\* steal_into needs a newer version (cached 0, loaded 1) while the producer
\* holds the write lock for the next growth.
C18_Witness ==
    /\ cons["c1"].pc = "u_steal_update_version"
    /\ lock
    /\ c_version["c1"] = 0 /\ cons["c1"].version = 1
    /\ u_head # unsync_load_tail

\* C19: drop exactness. When a queue of either kind is dropped, drop_in_place
\* runs exactly once on each element of the logical range [head, tail) and on
\* nothing else: on no slot twice, on no slot that holds no element, and on
\* no element that was popped, stolen or spilled before.
C19_DropExact ==
    p_ret.op = "drop"
        => /\ p_ret.res = "Dropped"
           /\ \A j \in DOMAIN p_ret.vals :
                LET v == p_ret.vals[j] IN
                /\ v # Uninit
                /\ Occurrences(p_ret.vals, v) = 1
                /\ delivered[v] = 0
                /\ Occurrences(sink, v) = 0
                /\ \A c \in Consumers :
                     IF CAPACITY # 0
                     THEN Occurrences(DstQueue(c), v) = 0
                     ELSE Occurrences(UDstQueue(c), v) = 0

\* How far the producer's running call is from its return, in kinds of steps:
\* an overflow handler may still fall back to a plain store.
Stage(pc) ==
    IF pc \in {"handle_overflow_one", "handle_overflow_many"} THEN 2
    ELSE IF pc \in {"push_unchecked", "push_many_store", "producer_pop_cas",
                    "producer_pop_many_cas"} THEN 1
    ELSE 0

InitLockFree ==
    /\ InitQueue({2, 3}, MaxPushLockFree, {"c1"})
    /\ debug_assertions /\ always_steal
NextLockFree ==
    \/ producer_maybe_push \/ push_unchecked
    \/ producer_pop \/ producer_pop_cas
    \/ Consumer("c1")
SpecLockFree ==
    InitLockFree /\ [][NextLockFree]_vars /\ WF_vars(Consumer("c1"))

\* C21: bounded consumer operations are lock-free. Once the producer (and
\* every other thread) has stopped taking steps, so that all further steps
\* are steps of the consumer handle, each call of consumer_pop_many (dst
\* shorter or longer than CAPACITY) and of steal_into returns: the consumer
\* is outside a call again and again.
C21_ConsumerLockFree ==
    <>[][Consumer("c1")]_vars
        => []<>(cons["c1"].pc \in {"idle", "panicked"})

\* C22: unbounded reserve(new_cap), new_cap a power of two above the current
\* capacity. None of the producer's steps inside the call changes head, the
\* length or the FIFO content of the queue (what later pops return, in
\* order); the step that publishes the new version makes the producer's
\* capacity() equal to new_cap and the version id (the producer's, the packed
\* word's and last_version's) greater by exactly 1.
C22_Reserve ==
    [][(p_arg.op = "reserve" /\ ppc' # ppc)
        => /\ UQueue' = UQueue
           /\ u_head' = u_head
           /\ unsync_load_tail' = unsync_load_tail
           /\ ppc = "u_handle_overflow"
                => /\ IsPowerOfTwo(p_arg.v)
                   /\ p_arg.v > capacity(Version(p_version))
           /\ ppc = "u_store_tail_and_version"
                => /\ ppc' = "idle"
                   /\ p_version' = p_version + 1
                   /\ capacity(Version(p_version')) = p_arg.v
                   /\ sync_load_version_and_tail'.version
                        = sync_load_version_and_tail.version + 1
                   /\ sync_load_version_and_tail'.version = p_version'
                   /\ last_version' = p_version']_vars

\* reserve is about to publish the version it filled from a queue whose
\* elements wrapped around the end of the old buffer.
C22_Witness ==
    /\ ppc = "u_store_tail_and_version" /\ p_arg.op = "reserve"
    /\ len(u_head, unsync_load_tail) >= 2
    /\ LET old == Version(p_version) IN
       BitAnd(u_head, old.mask) >= BitAnd(unsync_load_tail, old.mask)
    /\ Len(UQueue) >= 2 /\ InPushOrder(UQueue)

\* ------------------------------------------------------- scenario S3
\* test_spmc_bounded_many / test_spmc_unbounded_many: one thread at a time;
\* a batch is pushed into the empty queue with maybe_push_many or push_many,
\* then popped by the producer's or the consumer's pop_many into a dst as
\* long as the batch.
InitMany ==
    \/ InitQueue(CapacitiesMany, MaxPushMany, {"c1"})
    \/ InitUnbounded(MaxPushMany, MaxVersionId, {"c1"})
NextMany ==
    \/ (CAPACITY # 0 /\ AllIdle /\ head = tail
        /\ producer_maybe_push_many /\ p_arg'.n \in DstLens)
    \/ (CAPACITY # 0 /\ AllIdle /\ head = tail
        /\ producer_push_many /\ p_arg'.n \in DstLens)
    \/ (CAPACITY # 0 /\ push_many_store)
    \/ (CAPACITY # 0 /\ AllIdle /\ head # tail
        /\ producer_pop_many /\ p_arg'.n = len(head, tail))
    \/ (CAPACITY # 0 /\ producer_pop_many_cas)
    \/ (CAPACITY # 0 /\ AllIdle /\ head # tail
        /\ consumer_pop_many("c1") /\ cons'["c1"].len = len(head, tail))
    \/ (CAPACITY # 0 /\ pop_many_load_tail("c1"))
    \/ (CAPACITY # 0 /\ pop_many_copy("c1"))
    \/ (CAPACITY # 0 /\ pop_many_cas("c1"))
    \/ (CAPACITY = 0 /\ AllIdle /\ u_head = unsync_load_tail
        /\ u_producer_maybe_push_many /\ p_arg'.n \in UDstLens)
    \/ (CAPACITY = 0 /\ AllIdle /\ u_head = unsync_load_tail
        /\ u_producer_push_many /\ p_arg'.n \in UDstLens)
    \/ (CAPACITY = 0 /\ u_push_many_store)
    \/ (CAPACITY = 0 /\ u_handle_overflow)
    \/ (CAPACITY = 0 /\ u_write_last_version)
    \/ (CAPACITY = 0 /\ u_store_tail_and_version)
    \/ (CAPACITY = 0 /\ AllIdle /\ u_head # unsync_load_tail
        /\ u_producer_pop_many
        /\ p_arg'.n = len(u_head, unsync_load_tail))
    \/ (CAPACITY = 0 /\ u_producer_pop_many_cas)
    \/ (CAPACITY = 0 /\ AllIdle /\ u_head # unsync_load_tail
        /\ u_consumer_pop_many("c1")
        /\ cons'["c1"].len = len(u_head, unsync_load_tail))
    \/ (CAPACITY = 0 /\ u_pop_load_tail("c1"))
    \/ (CAPACITY = 0 /\ u_pop_update_version("c1"))
    \/ (CAPACITY = 0 /\ u_pop_copy("c1"))
    \/ (CAPACITY = 0 /\ u_pop_cas("c1"))
SpecMany == InitMany /\ [][NextMany]_vars

\* The batch pushed last: the n newest elements.
LastBatch(n) == Payload(pushed - n + 1, n)

C24_PackedWordConsistent ==
    LET w == sync_load_version_and_tail
        version == Version(w.version)
    IN  /\ w.version + 1 \in DOMAIN versions
        /\ u_head <= w.tail
        /\ w.tail - u_head <= capacity(version)
        /\ \A i \in u_head..(w.tail - 1) :
              version.ptr[BitAnd(i, version.mask)] = i + 1
        /\ \A c \in handles :
              cons[c].pc \in {"u_pop_update_version", "u_steal_update_version"}
                => /\ cons[c].version <= w.version
                   /\ cons[c].tail <= w.tail
                   /\ cons[c].tail >= u_head
                        => cons[c].tail - u_head
                             <= capacity(Version(cons[c].version))

\* The queue has grown twice and holds at least as many elements as the
\* first ring had slots; a consumer still holds the pair (older id, older
\* tail) it loaded from an earlier word.
C24_Witness ==
    LET w == sync_load_version_and_tail IN
    /\ w.version = 2
    /\ w.tail - u_head >= InitialCapacity
    /\ \E c \in handles :
          /\ cons[c].pc \in {"u_pop_update_version", "u_steal_update_version"}
          /\ cons[c].version < w.version
          /\ cons[c].tail < w.tail

\* C25: a grow keeps the content at head-aligned slots (V3). In the step that
\* makes version B from version A (handle_overflow or reserve), with h the
\* head the producer read and t the old tail, every logical index i of
\* [h, t) has in B, at slot i & mask_B, what A holds at slot i & mask_A, and
\* the tail returned is t = h + len; until B is published the live indices
\* keep their elements there; the word published with B carries
\* t + |payload| and the id of B; no step of the grow modifies head.
C25_GrowKeepsContent ==
    [][(ppc \in {"u_handle_overflow", "u_write_last_version",
                 "u_store_tail_and_version"} /\ ppc' # ppc)
        => LET A == Version(p_version)
               B == versions'[p_version + 2]
               h == IF p_arg.op = "reserve" THEN u_head ELSE p_head
               t == unsync_load_tail
           IN  /\ u_head' = u_head
               /\ B.id = A.id + 1
               /\ ppc = "u_handle_overflow"
                    => /\ p_tail' = t /\ t = wrapping_add(h, len(h, t))
                       /\ capacity(B) > capacity(A)
                       /\ \A i \in h..(t - 1) :
                             B.ptr[BitAnd(i, B.mask)] = A.ptr[BitAnd(i, A.mask)]
                       /\ UNCHANGED tail_and_version
               /\ \A i \in u_head..(t - 1) : B.ptr[BitAnd(i, B.mask)] = i + 1
               /\ ppc = "u_write_last_version" => UNCHANGED tail_and_version
               /\ ppc = "u_store_tail_and_version"
                    => tail_and_version' = pack_version_and_tail(
                          B.id, wrapping_add(t, p_arg.n))]_vars

\* A new version has been filled from a ring whose elements wrapped around
\* its end, and is not published yet.
C25_Witness ==
    /\ ppc = "u_write_last_version"
    /\ LET A == Version(p_version) IN
       /\ BitAnd(u_head, A.mask) > 0
       /\ BitAnd(unsync_load_tail, A.mask) <= BitAnd(u_head, A.mask)
       /\ len(u_head, unsync_load_tail) >= 3

\* C26: overflow fallback of the bounded push(v, sink). A turn of
\* handle_overflow_one whose compare-exchange on head fails either finds
\* len < K = CAPACITY / 2 and goes on to store v at slot(tail) with tail + 1
\* (the sink is not called), or retries; a turn whose compare-exchange
\* succeeds hands the K oldest queue elements and then v to the sink and
\* stores nothing. So each push ends in exactly one of the two ways: v in the
\* queue, or K queue elements plus v in the sink.
\* (Holds for even capacities; with an odd CAPACITY and head_idx >= K the
\* spill hands CAPACITY - K elements to the sink while head moves by K.)
C26_OverflowFallback ==
    [][/\ (ppc = "handle_overflow_one" /\ pvars' # pvars)
            => LET K == NUM_VALUES_TAKEN(CAPACITY) IN
               IF head # p_head
               THEN /\ UNCHANGED <<sink, qvars>>
                    /\ IF len(head, tail) < K
                       THEN ppc' = "push_unchecked" /\ UNCHANGED p_arg
                       ELSE ppc' = ppc /\ p_head' = head
               ELSE /\ ppc' = "idle" /\ p_ret'.res = "Spilled"
                    /\ Len(sink') = Len(sink) + K + 1
                    /\ sink'[Len(sink')] = p_arg.v
                    /\ Range(SubSeq(sink', Len(sink) + 1, Len(sink) + K))
                         = Range(SubSeq(Queue, 1, K))
                    /\ head' = wrapping_add(head, K)
                    /\ UNCHANGED <<tail, buffer>>
       /\ (ppc = "push_unchecked" /\ p_arg.op = "push" /\ pvars' # pvars)
            => /\ buffer' = [buffer EXCEPT ![tail % CAPACITY] = p_arg.v]
               /\ tail' = wrapping_add(tail, 1)
               /\ ppc' = "idle" /\ p_ret'.res = "Ok"
               /\ UNCHANGED <<head, sink>>]_vars

\* C27: no claim from an inconsistent view. Whenever the compare-exchange on
\* head of a consumer's pop_many or steal_into succeeds for a range
\* [h, h + n), bounded or unbounded, h + n <= tail holds at that moment and
\* the queue's length is within its capacity, so all n slots are live; and
\* the head / tail pair the claim was computed from did not give a length
\* above the capacity.
\* (Holds for the unbounded queue and for the bounded one in the debug build;
\* in the release build a push_many that moved head past tail lets a
\* consumer with a short dst claim slots that hold no element.)
C27_ClaimsOnlyLive ==
    [][\A c \in handles :
        /\ (\/ cons[c].pc = "pop_many_cas" /\ cons'[c].pc = "idle"
            \/ cons[c].pc = "steal_cas" /\ cons'[c].pc = "steal_store")
             => /\ cons[c].head = head
                /\ cons[c].n >= 1
                /\ cons[c].n <= len(head, tail)
                /\ len(head, tail) <= CAPACITY
                /\ cons[c].pc = "pop_many_cas"
                     => len(cons[c].head, cons[c].tail) <= CAPACITY
        /\ (\/ cons[c].pc = "u_pop_cas" /\ cons'[c].pc = "idle"
            \/ cons[c].pc = "u_steal_cas" /\ cons'[c].pc = "u_steal_store")
             => /\ cons[c].head = u_head
                /\ cons[c].n >= 1
                /\ cons[c].n <= len(u_head, unsync_load_tail)
                /\ len(u_head, unsync_load_tail)
                     <= capacity(Version(sync_load_version_and_tail.version))
                /\ cons[c].n <= capacity(Version(c_version[c]))]_vars

\* C28: the producer never overwrites a live slot. A pushing step of either
\* queue (push_unchecked and the bulk copy, reached from push, push_many,
\* maybe_push, maybe_push_many and the overflow paths) writes n elements at
\* the logical indices [tail, tail + n) with len + n <= capacity for the head
\* of that moment, so the indices lie in [tail, head + capacity); it changes
\* no other slot, every index of [head, tail) keeps its element, and the new
\* tail, tail + n, is stored by that step and by no step that wrote nothing.
\* (Holds for the unbounded queue and for the bounded one in the debug build;
\* in the release build a push_many that moved head past tail is followed by
\* pushes into a queue whose length is above its capacity.)
C28_NeverOverwritesLive ==
    [][/\ (ppc \in {"push_unchecked", "push_many_store"} /\ ppc' # ppc)
            => LET n == p_arg.n
                   l == len(head, tail)
               IN  /\ tail' = wrapping_add(tail, n)
                   /\ l + n <= CAPACITY
                   /\ \A i \in 0..(l - 1) :
                         Slot(buffer', wrapping_add(head, i), CAPACITY)
                            = Slot(buffer, wrapping_add(head, i), CAPACITY)
                   /\ \A j \in DOMAIN buffer :
                         buffer'[j] # buffer[j]
                            => \E i \in 0..(n - 1) :
                                  j = wrapping_add(tail, i) % CAPACITY
       /\ (tail' # tail \/ buffer' # buffer)
            => (ppc \in {"push_unchecked", "push_many_store"} /\ ppc' # ppc)
       /\ (/\ ppc \in {"u_push_unchecked", "u_push_many_store",
                       "u_store_tail_and_version"}
           /\ ppc' # ppc)
            => LET grown == ppc = "u_store_tail_and_version"
                   id == IF grown THEN p_version + 1 ELSE p_version
                   t == IF grown THEN p_tail ELSE unsync_load_tail
                   old == Version(id)
                   new == versions'[id + 1]
                   n == p_arg.n
                   l == len(u_head, t)
               IN  /\ tail_and_version'
                         = pack_version_and_tail(id, wrapping_add(t, n))
                   /\ l + n <= capacity(old)
                   /\ \A i \in 0..(l - 1) :
                         new.ptr[BitAnd(wrapping_add(u_head, i), old.mask)]
                            = old.ptr[BitAnd(wrapping_add(u_head, i), old.mask)]
                   /\ \A j \in DOMAIN old.ptr :
                         new.ptr[j] # old.ptr[j]
                            => \E i \in 0..(n - 1) :
                                  j = BitAnd(wrapping_add(t, i), old.mask)
       /\ tail_and_version' # tail_and_version
            => (/\ ppc \in {"u_push_unchecked", "u_push_many_store",
                            "u_store_tail_and_version"}
                /\ ppc' # ppc)]_vars

\* C29: failed steal attempts are invisible. In both queues, while a
\* steal_into call of handle c runs, every step up to and including its
\* compare-exchange on the source's head leaves dst's head and tail (dst's
\* packed word) as they were, so a dst that was empty stays empty for every
\* observer; a failed compare-exchange changes nothing of dst and nothing of
\* the source's head, and starts the attempt again; the store of dst's tail
\* is reached only from a successful compare-exchange that moved the source's
\* head by n, and it adds exactly n >= 1 once and ends the call.
C29_FailedStealInvisible ==
    [][\A c \in handles :
        LET pc == cons[c].pc
            n == cons[c].n
        IN  /\ pc \in {"steal_load_tail", "steal_reload_head", "steal_copy",
                       "steal_cas", "u_steal_load_tail",
                       "u_steal_update_version", "u_steal_reload_head",
                       "u_steal_copy", "u_steal_cas"}
                 => /\ dstq'[c].tail = dstq[c].tail
                    /\ dstq'[c].head = dstq[c].head
            /\ (pc = "steal_cas" /\ cons'[c] # cons[c] /\ head # cons[c].head)
                 => /\ UNCHANGED <<dstq, head>>
                    /\ cons'[c].pc = "steal_load_tail"
            /\ (pc = "u_steal_cas" /\ cons'[c] # cons[c]
                                   /\ u_head # cons[c].head)
                 => /\ UNCHANGED <<dstq, u_head>>
                    /\ cons'[c].pc = "u_steal_load_tail"
            /\ (cons'[c].pc = "steal_store" /\ pc # "steal_store")
                 => /\ pc = "steal_cas" /\ head = cons[c].head
                    /\ head' = wrapping_add(head, n)
                    /\ UNCHANGED dstq
            /\ (cons'[c].pc = "u_steal_store" /\ pc # "u_steal_store")
                 => /\ pc = "u_steal_cas" /\ u_head = cons[c].head
                    /\ u_head' = wrapping_add(u_head, n)
                    /\ UNCHANGED dstq
            /\ (pc \in {"steal_store", "u_steal_store"} /\ cons'[c] # cons[c])
                 => /\ n >= 1
                    /\ dstq'[c].tail = wrapping_add(dstq[c].tail, n)
                    /\ dstq'[c].head = dstq[c].head
                    /\ cons'[c].pc = "idle"
                    /\ UNCHANGED <<head, u_head>>
            /\ (dstq'[c].tail # dstq[c].tail /\ pc # "idle")
                 => pc \in {"steal_store", "u_steal_store"}]_vars

\* A compare-exchange of steal_into has failed after the optimistic copy:
\* dst's buffer holds the copied value, dst's tail has never moved, and the
\* call is back at the top of its loop.
C29_Witness ==
    /\ cons["c1"].pc \in {"steal_load_tail", "u_steal_load_tail"}
    /\ dstq["c1"].head = 0 /\ dstq["c1"].tail = 0
    /\ dstq["c1"].buffer[0] # Uninit
    /\ delivered[dstq["c1"].buffer[0]] = 1

\* C30: the producer's cache is the latest version. In every state of the
\* unbounded queue in which the producer is not between the write of
\* last_version and the store of the packed word of a grow (handle_overflow
\* or reserve), the id of the producer's cached version is the id in the
\* packed word and the id of the version in last_version, that version
\* exists and carries this id, whatever the consumers did in between.
C30_ProducerCacheLatest ==
    (CAPACITY = 0
        /\ ppc \notin {"u_write_last_version", "u_store_tail_and_version"})
      => /\ p_version = sync_load_version_and_tail.version
         /\ p_version = last_version
         /\ p_version + 1 = Len(versions)
         /\ Version(p_version).id = p_version
         /\ ~lock

\* The queue has grown, a consumer handle that still caches an older version
\* has stolen from it, and the producer is between calls.
C30_Witness ==
    /\ ppc = "idle" /\ p_version >= 1
    /\ c_version["c1"] < p_version
    /\ dstq["c1"].tail > 0
    /\ u_head > 0

\* C31: a consumer's cache never runs ahead of the lock-protected version
\* (V2). In every state of the unbounded queue the id of the version each
\* consumer handle caches is at most the id of the version in last_version,
\* and that version exists; and no step deallocates the buffer of a version
\* that a consumer handle, the producer or last_version still refers to after
\* the step.
C31_ConsumerCacheNotAhead ==
    /\ [](\A c \in handles :
            /\ c_version[c] <= last_version
            /\ CAPACITY = 0 => c_version[c] < Len(versions))
    /\ [][\A id \in 0..(Len(versions) - 1) :
            (\/ \E c \in handles' : c_version'[c] = id
             \/ p_version' = id
             \/ last_version' = id)
              => \/ versions'[id + 1].ptr = versions[id + 1].ptr
                 \/ versions'[id + 1]
                       # alloc_new(capacity(versions[id + 1]), id)]_vars

\* The producer works on a newer version while a consumer handle still caches
\* an older one, whose buffer is still allocated with the elements written
\* into it; the version before that one has been deallocated.
C31_Witness ==
    /\ ppc = "idle" /\ p_version = 2
    /\ c_version["c1"] = 1
    /\ Version(1) # alloc_new(capacity(Version(1)), 1)
    /\ Version(0) = alloc_new(InitialCapacity, 0)
    /\ pushed > 0

\* C32: publish order of a new version. The producer writes the new version
\* into last_version while the packed word still carries the old id, and
\* stores the new id into the word only when last_version already holds that
\* version; so in every state the id in last_version is the id of the word or
\* that id + 1. A consumer handle that saw in the word an id greater than its
\* cached one and gets the read lock in update_version caches a version whose
\* id is at least the id it saw.
C32_PublishOrder ==
    /\ [](CAPACITY = 0
            => last_version \in {sync_load_version_and_tail.version,
                                 sync_load_version_and_tail.version + 1})
    /\ [][/\ last_version' # last_version
               => /\ UNCHANGED tail_and_version
                  /\ last_version' = sync_load_version_and_tail.version + 1
          /\ unpack_version_and_tail(tail_and_version').version
                # sync_load_version_and_tail.version
               => /\ UNCHANGED last_version
                  /\ unpack_version_and_tail(tail_and_version').version
                        = last_version
          /\ \A c \in handles :
                (/\ cons[c].pc \in {"u_pop_update_version",
                                    "u_steal_update_version"}
                 /\ cons'[c] # cons[c])
                  => /\ cons[c].version > c_version[c]
                     /\ cons[c].version
                           <= sync_load_version_and_tail.version
                     /\ ~lock => /\ c_version'[c] >= cons[c].version
                                 /\ c_version'[c] = last_version
                     /\ lock => /\ c_version'[c] = c_version[c]
                                /\ cons'[c].pc = "idle"]_vars

\* A consumer handle saw the id of version 1 in the packed word and stands
\* before update_version while last_version already holds version 2, whose
\* id is not in the word yet.
C32_Witness ==
    /\ cons["c1"].pc \in {"u_pop_update_version", "u_steal_update_version"}
    /\ cons["c1"].version = 1 /\ c_version["c1"] = 0
    /\ last_version = 2 /\ sync_load_version_and_tail.version = 1
    /\ ~lock

\* C33: producer pop. In both queues, under concurrent consumers: a call
\* goes to its compare-exchange only if head # tail; it returns None only in
\* a step at which head = tail, and at such a step it does return None
\* without changing head; a turn whose compare-exchange fails retries only
\* if head has moved and is not tail; the turn whose compare-exchange
\* succeeds advances head by exactly 1 and returns the oldest live element,
\* the one pushed at the logical index head of that moment.
C33_ProducerPop ==
    [][/\ (/\ ppc \in {"idle", "producer_pop_cas"} /\ pvars' # pvars
           /\ \/ ppc' = "producer_pop_cas"
              \/ (ppc' = "idle" /\ p_ret'.op = "pop"))
            => /\ (ppc = "idle" /\ ppc' = "producer_pop_cas")
                    => head # tail /\ UNCHANGED head
               /\ (ppc = "producer_pop_cas" /\ ppc' = ppc)
                    => /\ head # p_head /\ head # tail
                       /\ p_head' = head /\ UNCHANGED head
               /\ ppc' = "idle"
                    => IF head = tail
                       THEN p_ret'.res = "None" /\ UNCHANGED head
                       ELSE /\ p_ret'.res = "Some"
                            /\ head' = wrapping_add(head, 1)
                            /\ len(head, tail) <= CAPACITY
                            /\ p_ret'.vals = <<Queue[1]>>
                            /\ \A j \in DOMAIN Queue :
                                  Queue[j] >= p_ret'.vals[1]
                            /\ p_ret'.vals[1] \in 1..pushed
               /\ UNCHANGED <<tail, buffer>>
       /\ (/\ ppc \in {"idle", "u_producer_pop_cas"} /\ pvars' # pvars
           /\ \/ ppc' = "u_producer_pop_cas"
              \/ (ppc' = "idle" /\ p_ret'.op = "pop"))
            => /\ (ppc = "idle" /\ ppc' = "u_producer_pop_cas")
                    => u_head # unsync_load_tail /\ UNCHANGED u_head
               /\ (ppc = "u_producer_pop_cas" /\ ppc' = ppc)
                    => /\ u_head # p_head /\ u_head # unsync_load_tail
                       /\ p_head' = u_head /\ UNCHANGED u_head
               /\ ppc' = "idle"
                    => IF u_head = unsync_load_tail
                       THEN p_ret'.res = "None" /\ UNCHANGED u_head
                       ELSE /\ p_ret'.res = "Some"
                            /\ u_head' = wrapping_add(u_head, 1)
                            /\ p_ret'.vals = <<UQueue[1]>>
                            /\ p_ret'.vals = <<u_head + 1>>
               /\ UNCHANGED <<tail_and_version, versions>>]_vars

\* C34: pop_many batch size. The step at which the compare-exchange of a
\* producer or consumer pop_many(dst) succeeds, with h the value of head at
\* that step and t the tail the caller loaded, takes k = min(|dst|, t - h)
\* elements, k >= 1: head advances by exactly k and dst[0..k) holds, in
\* order, what the slots of the logical indices [h, h + k) hold at that step.
\* For the unbounded consumer, whose loaded tail is dead after the copy, k is
\* checked where it is computed from the loaded pair, and at its
\* compare-exchange k is within |dst| and within the length of that moment.
C34_PopManyBatch ==
    [][/\ (ppc = "producer_pop_many_cas" /\ ppc' = "idle" /\ head = p_head)
            => LET k == Min(p_arg.n, len(head, tail)) IN
               /\ k >= 1
               /\ head' = wrapping_add(head, k)
               /\ p_ret'.vals =
                     [j \in 1..k |-> buffer[wrapping_add(head, j - 1) % CAPACITY]]
               /\ UNCHANGED <<tail, buffer>>
       /\ (ppc = "u_producer_pop_many_cas" /\ ppc' = "idle" /\ u_head = p_head)
            => LET k == Min(p_arg.n, len(u_head, unsync_load_tail)) IN
               /\ k >= 1
               /\ u_head' = wrapping_add(u_head, k)
               /\ p_ret'.vals = SubSeq(UQueue, 1, k)
               /\ UNCHANGED <<tail_and_version, versions>>
       /\ \A c \in handles :
            /\ (cons[c].pc = "pop_many_cas" /\ cons'[c].pc = "idle")
                 => LET k == Min(cons[c].len, len(head, cons[c].tail)) IN
                    /\ head = cons[c].head
                    /\ k >= 1 /\ cons[c].n = k
                    /\ head' = wrapping_add(head, k)
                    /\ cons[c].dst =
                          [j \in 1..k |->
                              buffer[wrapping_add(head, j - 1) % CAPACITY]]
                    /\ delivered' = Handed(delivered, cons[c].dst)
                    /\ UNCHANGED <<tail, buffer>>
            /\ (cons[c].pc = "u_pop_load_tail" /\ cons'[c].pc = "u_pop_copy")
                 => cons'[c].n =
                       Min(cons[c].len,
                           len(cons[c].head, sync_load_version_and_tail.tail))
            /\ (cons[c].pc = "u_pop_cas" /\ cons'[c].pc = "idle")
                 => LET k == cons[c].n IN
                    /\ u_head = cons[c].head
                    /\ k >= 1 /\ k <= cons[c].len
                    /\ k <= len(u_head, unsync_load_tail)
                    /\ u_head' = wrapping_add(u_head, k)
                    /\ cons[c].dst = SubSeq(UQueue, 1, k)
                    /\ delivered' = Handed(delivered, cons[c].dst)
                    /\ UNCHANGED <<tail_and_version>>]_vars

\* C35: push_many_unchecked(first, last). A call made with
\* len + |first| + |last| <= capacity returns in the step that stores tail:
\* the queue afterwards is the queue before followed by all of first and then
\* all of last, in order; tail grows by |first| + |last| in that one step and
\* in no other step of these runs; head is not changed. A call returns that
\* way only if the condition held, and the producer's pops and the consumer's
\* pop_many never move tail.
C35_PushManyUnchecked ==
    [][/\ (/\ ppc = "idle" /\ ppc' = "idle"
           /\ p_ret'.op = "push_many_unchecked"
           /\ (pushed' # pushed \/ p_ret' # p_ret))
            => LET vals == p_ret'.vals
                   n == Len(vals)
               IN  /\ n = pushed' - pushed
                   /\ vals = Payload(pushed + 1, n)
                   /\ IF CAPACITY # 0
                      THEN /\ len(head, tail) + n <= CAPACITY
                           /\ tail' = wrapping_add(tail, n)
                           /\ head' = head
                           /\ Queue' = Queue \o vals
                      ELSE /\ len(u_head, unsync_load_tail) + n
                                 <= capacity(Version(p_version))
                           /\ tail_and_version' = pack_version_and_tail(
                                 p_version, wrapping_add(unsync_load_tail, n))
                           /\ u_head' = u_head
                           /\ UQueue' = UQueue \o vals
                           /\ UNCHANGED <<p_version, last_version>>
       /\ (tail' # tail \/ tail_and_version' # tail_and_version)
            => (ppc = "idle" /\ ppc' = "idle"
                             /\ p_ret'.op = "push_many_unchecked")
       /\ (ppc = "idle" /\ ppc' \in {"panicked", "undefined"})
            => /\ \/ (CAPACITY # 0 /\ len(head, tail) + pushed' - pushed
                                         > CAPACITY)
                  \/ (CAPACITY = 0 /\ len(u_head, unsync_load_tail)
                                         + pushed' - pushed
                                         > capacity(Version(p_version)))
               /\ UNCHANGED <<qvars, tail_and_version, versions>>]_vars

\* push_many_unchecked has just appended two slices behind elements that
\* were in the queue, around the end of the ring, after head had moved.
C35_Witness ==
    /\ ppc = "idle" /\ p_ret.op = "push_many_unchecked"
    /\ Len(p_ret.vals) >= 2
    /\ \/ /\ CAPACITY # 0 /\ head > 0
          /\ Len(Queue) > Len(p_ret.vals)
          /\ Queue[Len(Queue)] = pushed
          /\ tail % CAPACITY > 0 /\ tail % CAPACITY < Len(p_ret.vals)
       \/ /\ CAPACITY = 0 /\ u_head > 0
          /\ Len(UQueue) > Len(p_ret.vals)
          /\ UQueue[Len(UQueue)] = pushed
          /\ unsync_load_tail % InitialCapacity > 0
          /\ unsync_load_tail % InitialCapacity < Len(p_ret.vals)

SpecOverflowLoop ==
    /\ InitQueue(CapacitiesOne, MaxPushOne, {"c1"})
    /\ [][NextB]_vars
    /\ WF_vars(handle_overflow_one \/ handle_overflow_many)

\* C37: the overflow retry loop terminates. While the producer is in
\* handle_overflow_one or handle_overflow_many, tail does not change; a turn
\* of the loop whose compare-exchange succeeds spills and returns; a turn
\* whose compare-exchange fails for a reason (head is no longer the head the
\* producer holds) finds head nearer to tail than the head it held, and
\* either falls back to the plain push or goes round again; the head the
\* producer holds is never further than CAPACITY from tail, so no more than
\* CAPACITY turns can fail that way; and a producer that keeps being
\* scheduled leaves the handler, whatever the consumers do.
C37_OverflowLoopTerminates ==
    /\ [](ppc \in {"handle_overflow_one", "handle_overflow_many"}
            => len(p_head, tail) <= CAPACITY)
    /\ [][(ppc \in {"handle_overflow_one", "handle_overflow_many"})
            => /\ tail' = tail
               /\ (p_arg' # p_arg => ppc' = "idle")
               /\ (pvars' # pvars /\ head = p_head)
                    => /\ head' = wrapping_add(p_head, NUM_VALUES_TAKEN(CAPACITY))
                       /\ ppc' = "idle" /\ p_ret'.res = "Spilled"
               /\ (pvars' # pvars /\ head # p_head)
                    => /\ head' = head /\ p_head' = head
                       /\ len(p_head', tail) < len(p_head, tail)
                       /\ ppc' \in {ppc, "push_unchecked", "push_many_store"}
                       /\ (/\ ppc = "handle_overflow_one"
                           /\ len(head, tail) < NUM_VALUES_TAKEN(CAPACITY))
                            => ppc' = "push_unchecked"
                       /\ (ppc' = "push_many_store")
                            => len(head, tail) + p_arg.n <= CAPACITY]_vars
    /\ (ppc \in {"handle_overflow_one", "handle_overflow_many"}
          ~> ppc \notin {"handle_overflow_one", "handle_overflow_many"})

\* C38: the overflow entry assertion. Every call of push or push_many that
\* enters handle_overflow_one or handle_overflow_many (in the debug build:
\* reaches the handler's debug_assert!, which panics when it fails) does so
\* with tail == head + CAPACITY, the queue holding exactly CAPACITY elements.
C38_OverflowEntryFull ==
    [][(/\ ppc = "idle"
        /\ ppc' \in {"handle_overflow_one", "handle_overflow_many", "panicked"}
        /\ p_arg'.op \in {"push", "push_many"})
        => /\ tail = wrapping_add(head, CAPACITY)
           /\ len(head, tail) = CAPACITY
           /\ ppc' # "panicked"]_vars

\* The runs of the bounded queue (two or three slots, the debug build, the
\* producer with every operation, one consumer handle calling pop_many) in
\* which the queue is not empty at any instant of a consumer's call: a step
\* is taken only if it leaves head # tail or leaves the consumer outside a
\* call.
NextNeverEmpty ==
    \/ (producer_push /\ (head' # tail' \/ cons'["c1"].pc = "idle"))
    \/ (producer_maybe_push /\ (head' # tail' \/ cons'["c1"].pc = "idle"))
    \/ (push_unchecked /\ (head' # tail' \/ cons'["c1"].pc = "idle"))
    \/ (handle_overflow_one /\ (head' # tail' \/ cons'["c1"].pc = "idle"))
    \/ (producer_push_many /\ (head' # tail' \/ cons'["c1"].pc = "idle"))
    \/ (producer_maybe_push_many /\ (head' # tail' \/ cons'["c1"].pc = "idle"))
    \/ (push_many_store /\ (head' # tail' \/ cons'["c1"].pc = "idle"))
    \/ (handle_overflow_many /\ (head' # tail' \/ cons'["c1"].pc = "idle"))
    \/ (producer_pop /\ (head' # tail' \/ cons'["c1"].pc = "idle"))
    \/ (producer_pop_cas /\ (head' # tail' \/ cons'["c1"].pc = "idle"))
    \/ (producer_pop_many /\ (head' # tail' \/ cons'["c1"].pc = "idle"))
    \/ (producer_pop_many_cas /\ (head' # tail' \/ cons'["c1"].pc = "idle"))
    \/ (consumer_pop_many("c1") /\ (head' # tail' \/ cons'["c1"].pc = "idle"))
    \/ (pop_many_load_tail("c1") /\ (head' # tail' \/ cons'["c1"].pc = "idle"))
    \/ (pop_many_reload_head("c1") /\ (head' # tail' \/ cons'["c1"].pc = "idle"))
    \/ (pop_many_copy("c1") /\ (head' # tail' \/ cons'["c1"].pc = "idle"))
    \/ (pop_many_cas("c1") /\ (head' # tail' \/ cons'["c1"].pc = "idle"))
SpecNeverEmpty == InitLockFree /\ [][NextNeverEmpty]_vars

\* C39: zero means empty for the bounded consumer. A consumer_pop_many with
\* a non-empty dst returns 0 only if head == tail held at some instant during
\* the call. In runs in which head # tail holds at every instant of every
\* consumer call, no consumer_pop_many returns 0: no step leaves the top of
\* its loop (after the load of tail or after the reload of head) for the
\* return; every dst of the runs has at least one slot.
C39_ZeroMeansEmpty ==
    /\ [](\A c \in Consumers : cons[c].pc # "idle" => head # tail)
    /\ [][\A c \in Consumers :
            ~(/\ cons[c].pc \in {"pop_many_load_tail", "pop_many_reload_head"}
              /\ cons[c].len >= 1
              /\ cons'[c].pc = "idle")]_vars

\* C40: spilled slices match the head advance for every capacity, odd ones
\* included. When an overflow handler spills from an exactly full queue, the
\* two slices it passes to the sink (what the sink receives before the value
\* or the slice being pushed) hold together exactly NUM_VALUES_TAKEN =
\* CAPACITY / 2 elements, head advances by that same number, and none of the
\* spilled elements is still in the queue afterwards.
C40_SlicesMatchHeadAdvance ==
    [][(Spills /\ len(head, tail) = CAPACITY) =>
         LET slices == SubSeq(sink', Len(sink) + 1, Len(sink') - p_arg.n)
         IN  /\ Len(slices) = NUM_VALUES_TAKEN(CAPACITY)
             /\ len(head, head') = Len(slices)
             /\ \A j \in DOMAIN slices : Occurrences(Queue', slices[j]) = 0]_vars

====
